---------------------------- MODULE Spec2Model ----------------------------
(***************************************************************************)
(* A model of go-1sat-ord: the operation builders (CreateOrdinals,         *)
(* SendOrdinals, SendUtxos, BurnOrdinals, DeployBsv21Token,                *)
(* TransferOrdTokens, the listing builders, the legacy CreateTxWithChange) *)
(* running against the pending transaction of the SDK, and the token       *)
(* selection function SelectTokenUtxos with its float64 arithmetic.        *)
(*                                                                         *)
(* A builder call is modelled as the sequence of engine operations its     *)
(* code performs for a given config (inputs added, outputs added, the fee  *)
(* resolution, the signing, or the first error it returns); the engine     *)
(* actions execute that sequence one operation at a time on the pending    *)
(* transaction.                                                            *)
(***************************************************************************)
EXTENDS Integers, Sequences, FiniteSets, TLC

VARIABLES
    fn,        \* the builder being run ("none" before the call)
    cfg,       \* the config record the caller passed
    plan,      \* the engine operations the builder performs for cfg
    pc,        \* index of the next operation of plan
    inputs,    \* pending transaction: inputs added so far
    outputs,   \* pending transaction: outputs added so far
    fee,       \* fee computed by the fee resolution (-1 before)
    err,       \* the error returned ([msg, total]) or NoErr
    ret,       \* "none" while running, "tx" or "nil" once returned
    signed,    \* number of times the transaction was signed
    sel,       \* a call of SelectTokenUtxos: its arguments and its result
    util       \* a call of a utility function: its name, arguments and result

vars == <<fn, cfg, plan, pc, inputs, outputs, fee, err, ret, signed, sel, util>>

-----------------------------------------------------------------------------
(* Bounds of the model *)

MaxUtxos == 2
MaxPayments == 1
MaxListings == 1

(* Program constants *)

DEFAULT_SAT_PER_KB == 10

-----------------------------------------------------------------------------
(* Helpers *)

SeqsUpTo(S, n) == UNION {[1..k -> S] : k \in 0..n}

RECURSIVE SumSats(_)
SumSats(s) == IF s = <<>> THEN 0 ELSE Head(s).sats + SumSats(Tail(s))

RECURSIVE SumNat(_)
SumNat(s) == IF s = <<>> THEN 0 ELSE Head(s) + SumNat(Tail(s))

RECURSIVE Flatten(_)
Flatten(ss) == IF ss = <<>> THEN <<>> ELSE Head(ss) \o Flatten(Tail(ss))

NoErr == [msg |-> "", cause |-> "", total |-> -1]

(* The engine operations a builder performs. *)
Step(op, kind, sats, tokens, size, msg, arg) ==
    [op |-> op, kind |-> kind, sats |-> sats, tokens |-> tokens,
     size |-> size, msg |-> msg, arg |-> arg]

(* return nil, fmt.Errorf(msg) *)
Fail(msg) == Step("err", "", 0, 0, 0, msg, -1)


(* A pointer: nil, or the value it points to. *)
Nil == <<>>
IsNil(p) == p = <<>>
Deref(p) == p[1]
Pointers(S) == {Nil} \cup {<<v>> : v \in S}

(* Go's zero value: a bool field the caller does not set is false. *)
GoBool(b) == b = "true"

-----------------------------------------------------------------------------
(* The SDK as the builders use it (github.com/bsv-blockchain/go-sdk).      *)

MAP_PREFIX == "1PuQa7K62MiKCtssSLKy1kh56WWU7MtUR5"

(* Script lengths in bytes of the locking script families. *)
P2PKHSize == 25
OrdP2PKHSize == 80
Bsv21Size == 110
OpReturnSize == 2
MapHeaderSize == 39
MapEntrySize == 10
(* Serialized bytes of an input with a P2PKH unlocking script, and of the  *)
(* version, counts and lock time of a transaction.                         *)
InputSize == 148
TxOverhead == 10

(* The transaction ids and locking scripts the callers pass. *)
ValidTxID == "0000000000000000000000000000000000000000000000000000000000000003"
InvalidTxID == "invalid-txid"
ValidScript == "76a914b437a081c28a178b9ce5e2a0e694d45d1d5e2c0388ac"
InvalidScript == "script"

(* Whether hex.DecodeString accepts the string, for the strings in use. *)
IsHex(s) ==
    CASE s \in {ValidTxID, ValidScript,
                "0000000000000000000000000000000000000000000000000000000000000001",
                "0000000000000000000000000000000000000000000000000000000000000004",
                "abcdef1234567890abcdef1234567890abcdef1234567890abcdef1234567890",
                "abcdef1234567890abcdef1234567890abcdef1234567890abcdef1234567891",
                "2cbc85602b52fc65a70d4e2769b8c0ea28462bf9d8da86485a787220563e708b",
                "28302ee1ac9c62b0098ee741e4cffad2798a6bbbd2f53467d6e7ca9829b1ac2a",
                "76a914b10d25c5ba3dda4e217524c7f7a6d6c53d2ae85588ac",
                "76a914a5f427350ffc9a9f0c02e823ff5c3d77c9846fec88ac",
                "76a91458120c48b55a861fe667c96e64b327004e6ff13c88ac",
                "76a914199652f095a99e31d487743b9bd21ecc03343f4b88ac"} -> TRUE
      [] s \in {InvalidTxID, InvalidScript, "txid"} -> FALSE

(* The error of tx.AddInputFrom(txID, vout, script, satoshis, unlocker),   *)
(* "" when it has none: the locking script is parsed from hex first, then  *)
(* the transaction id.                                                     *)
AddInputFromError(txID, lockingScript) ==
    IF ~IsHex(lockingScript) THEN "invalid locking script hex"
    ELSE IF ~IsHex(txID) THEN "invalid transaction id hex"
    ELSE ""

(* The call tx.AddInputFrom(utxo.TxID, utxo.Vout, utxo.ScriptPubKey,       *)
(* utxo.Satoshis, unlocker) of a builder that wraps its error in addMsg.   *)
InStep(kind, utxo, addMsg) ==
    [op |-> "in", kind |-> kind, sats |-> utxo.Satoshis, tokens |-> 0, size |-> 0,
     msg |-> addMsg, arg |-> -1, TxID |-> utxo.TxID, ScriptPubKey |-> utxo.ScriptPubKey]

(* The input is not added: tx.AddInputFrom returns an error. *)
Rejected(st) == st.op = "in" /\ AddInputFromError(st.TxID, st.ScriptPubKey) # ""

(* p2pkh.Unlock(key, nil) fails on a nil key; tx.AddInputFrom then adds    *)
(* the input or fails.                                                     *)
InputFrom(kind, utxo, key, unlockMsg, addMsg) ==
    IF key = "nil" THEN <<Fail(unlockMsg)>>
    ELSE <<InStep(kind, utxo, addMsg)>>

RECURSIVE Cut(_)
(* A builder returns at its first error: nothing after it is performed. *)
Cut(s) ==
    IF s = <<>> THEN <<>>
    ELSE IF Head(s).op \in {"err", "panic"} \/ Rejected(Head(s)) THEN <<Head(s)>>
    ELSE <<Head(s)>> \o Cut(Tail(s))

(* script.NewAddressFromString(addr) fails on a malformed address, the     *)
(* empty string included.                                                  *)
NewAddressFromString(addr, msg) ==
    IF addr = "" THEN <<Fail(msg)>> ELSE <<>>

(* tx.AddOutput(&TransactionOutput{LockingScript, Satoshis}) *)
Output(kind, sats, tokens, size) == <<Step("out", kind, sats, tokens, size, "", -1)>>

(* tx.AddOutput(&TransactionOutput{LockingScript: changeScript, Change: true}) *)
ChangeOutput(addr) ==
    NewAddressFromString(addr, "failed to create change address")
    \o <<Step("change", "change", 0, 0, P2PKHSize, "", -1)>>

(* tx.Fee(feeModel, ChangeDistributionEqual), and what the builder does    *)
(* with its error: wrapMsg is the "not enough funds ... Total sats in: %d" *)
(* text of the builder ("" when it has none), totalIn its argument.        *)
FeeStep(feeRate, wrapMsg, totalIn) == <<Step("fee", "", feeRate, 0, 0, wrapMsg, totalIn)>>

(* tx.Sign(), then return tx, nil *)
SignStep == <<Step("sign", "", 0, 0, 0, "", -1)>>

RECURSIVE SumSizes(_)
SumSizes(outs) ==
    IF outs = <<>> THEN 0 ELSE 9 + Head(outs).size + SumSizes(Tail(outs))

TxSize(ins, outs) == TxOverhead + InputSize * Len(ins) + SumSizes(outs)

(* fee_model.SatoshisPerKilobyte.ComputeFee: the fee the fee model        *)
(* requires for a transaction of this size at this rate.                   *)
ComputeFee(ins, outs, rate) == (TxSize(ins, outs) * rate + 999) \div 1000

(* The error of tx.Fee when the inputs do not cover outputs plus fee. *)
ErrInsufficientInputs == "satoshis inputted to the tx are less than the outputted satoshis"

(* The builders' handling of the error of tx.Fee. *)
WrapFeeError(step, e) ==
    IF step.msg # "" /\ e = "insufficient funds for fee"
    THEN [msg |-> step.msg, cause |-> "", total |-> step.arg]
    ELSE [msg |-> "failed to calculate fee", cause |-> e, total |-> -1]

NonChange(outs) == SelectSeq(outs, LAMBDA o : ~o.change)
ChangeOuts(outs) == SelectSeq(outs, LAMBDA o : o.change)

-----------------------------------------------------------------------------
(* The builders: the engine operations each performs for a config.         *)

FeeRateOf(config) ==
    IF config.SatsPerKb = 0 THEN DEFAULT_SAT_PER_KB ELSE config.SatsPerKb

TotalSatoshis(utxos) == SumNat([i \in DOMAIN utxos |-> utxos[i].Satoshis])

(* for _, utxo := range utxos { p2pkh.Unlock(key); tx.AddInputFrom(...) } *)
PaymentInputs(utxos, key, unlockMsg, addMsg) ==
    Flatten([i \in DOMAIN utxos |->
        InputFrom("payment", utxos[i], key, unlockMsg, addMsg)])

(* for _, payment := range payments { tx.AddOutput(p2pkh, payment.Satoshis) } *)
PaymentOutputs(payments) ==
    Flatten([i \in DOMAIN payments |->
        Output("payment", payments[i].Satoshis, 0, P2PKHSize)])

(* if config.ChangeAddress == "" && config.PaymentPk == nil { return err } *)
ChangeOrKeyRequired(config, msg) ==
    IF config.ChangeAddress = "" /\ config.PaymentPk = "nil"
    THEN <<Fail(msg)>> ELSE <<>>

(* if config.ChangeAddress != "" { ... tx.AddOutput(Change: true) } *)
ChangeIfAddress(config) ==
    IF config.ChangeAddress # "" THEN ChangeOutput(config.ChangeAddress) ELSE <<>>

(* A SendOrdinals that never checks the destination count. *)
UniformSendCheckOff(config) == <<>>

(* SendOrdinals: the check of the destination count against the ordinals. *)
UniformSendCheck(config) ==
    IF GoBool(config.EnforceUniformSend)
       /\ Len(config.Destinations) # Len(config.Ordinals)
    THEN <<Fail("number of destinations must match number of ordinals being sent")>>
    ELSE <<>>

(* SendOrdinals: one iteration of the loop over config.Ordinals. *)
SendOrdinalInput(config, o) ==
    IF o.Satoshis # 1
    THEN <<Fail("1Sat Ordinal utxos must have exactly 1 satoshi")>>
    ELSE InputFrom("ordinal", o, config.OrdPk,
                   "private key is required to sign the ordinal",
                   "failed to add ordinal input")

(* SendOrdinals: one iteration of the loop over config.Destinations. *)
SendDestinationOutput(d) ==
    IF d.omitMetadata THEN Output("ordinal", 1, 0, P2PKHSize)
    ELSE IF d.Inscription THEN Output("ordinal", 1, 0, OrdP2PKHSize)
    ELSE Output("ordinal", 1, 0, P2PKHSize)

(* A SendOrdinals that adds the payment inputs before the ordinals. *)
SendOrdinalsPaymentsFirst(config) ==
    Cut(UniformSendCheck(config)
        \o PaymentInputs(config.PaymentUtxos, config.PaymentPk,
                         "private key is required to sign the payment",
                         "failed to add payment input")
        \o Flatten([i \in DOMAIN config.Ordinals |->
                      SendOrdinalInput(config, config.Ordinals[i])])
        \o Flatten([i \in DOMAIN config.Destinations |->
                      SendDestinationOutput(config.Destinations[i])])
        \o PaymentOutputs(config.AdditionalPayments)
        \o ChangeOrKeyRequired(config, "either changeAddress or paymentPk is required")
        \o ChangeIfAddress(config)
        \o FeeStep(FeeRateOf(config),
                   "not enough funds to send ordinals. Total sats in: %d",
                   TotalSatoshis(config.PaymentUtxos))
        \o SignStep)

SendOrdinals(config) ==
    Cut(UniformSendCheck(config)
        \o Flatten([i \in DOMAIN config.Ordinals |->
                      SendOrdinalInput(config, config.Ordinals[i])])
        \o PaymentInputs(config.PaymentUtxos, config.PaymentPk,
                         "private key is required to sign the payment",
                         "failed to add payment input")
        \o Flatten([i \in DOMAIN config.Destinations |->
                      SendDestinationOutput(config.Destinations[i])])
        \o PaymentOutputs(config.AdditionalPayments)
        \o ChangeOrKeyRequired(config, "either changeAddress or paymentPk is required")
        \o ChangeIfAddress(config)
        \o FeeStep(FeeRateOf(config),
                   "not enough funds to send ordinals. Total sats in: %d",
                   TotalSatoshis(config.PaymentUtxos))
        \o SignStep)

(* CreateOrdinals: one iteration of the loop over config.Destinations. *)
InscriptionOutput(d) ==
    IF ~d.Inscription
    THEN <<Fail("inscription is required for all destinations")>>
    ELSE IF d.omitMetadata THEN Output("ordinal", 1, 0, P2PKHSize)
    ELSE Output("ordinal", 1, 0, OrdP2PKHSize)

CreateOrdinals(config) ==
    Cut(PaymentInputs(config.Utxos, config.PaymentPk,
                      "private key is required to sign the transaction",
                      "failed to add input")
        \o Flatten([i \in DOMAIN config.Destinations |->
                      InscriptionOutput(config.Destinations[i])])
        \o PaymentOutputs(config.AdditionalPayments)
        \o ChangeOrKeyRequired(config, "either changeAddress or paymentPk is required")
        \o ChangeOutput(config.ChangeAddress)
        \o FeeStep(FeeRateOf(config),
                   "not enough funds to create ordinals. Total sats in: %d",
                   TotalSatoshis(config.Utxos))
        \o SignStep)

SendUtxos(config) ==
    Cut(PaymentInputs(config.Utxos, config.PaymentPk, "failed to create unlocker",
                      "failed to add input")
        \o PaymentOutputs(config.Payments)
        \o ChangeIfAddress(config)
        \o FeeStep(FeeRateOf(config), "", -1)
        \o SignStep)

(* A BurnOrdinals loop that does not check the value of the ordinal. *)
BurnOrdinalInputUnchecked(config, o) ==
    InputFrom("ordinal", o, config.OrdPk, "failed to create ordinal unlocker",
              "failed to add ordinal input")

(* BurnOrdinals: one iteration of the loop over config.Ordinals. *)
BurnOrdinalInput(config, o) ==
    IF o.Satoshis # 1
    THEN <<Fail("1Sat Ordinal UTXOs must have exactly 1 satoshi")>>
    ELSE InputFrom("ordinal", o, config.OrdPk,
                   "failed to create ordinal unlocker", "failed to add ordinal input")

(* hex.EncodeToString([]byte(s)) of the strings the burn script is made of *)
HexEncodeToString(s) ==
    CASE s = "1PuQa7K62MiKCtssSLKy1kh56WWU7MtUR5"
           -> "3150755161374b36324d694b43747373534c4b79316b683536575755374d74555235"
      [] s = "SET" -> "534554"
      [] s = "app" -> "617070"
      [] s = "type" -> "74797065"
      [] s = "testapp" -> "74657374617070"
      [] s = "burn" -> "6275726e"

(* config.Metadata[key] *)
MetadataValue(key) == CASE key = "app" -> "testapp" [] key = "type" -> "burn"

(* The orders in which "for key, value := range config.Metadata" can visit *)
(* the keys of the map: Go leaves the iteration order of a map open.       *)
RangeOrders(keys) ==
    {order \in [1..Cardinality(keys) -> keys] :
        \A i, j \in DOMAIN order : i # j => order[i] # order[j]}

RECURSIVE MapEntriesAsm(_)
(* BurnOrdinals: what the loop over config.Metadata appends to asm, the    *)
(* keys visited in the given order.                                        *)
MapEntriesAsm(order) ==
    IF order = <<>> THEN ""
    ELSE " " \o HexEncodeToString(Head(order))
         \o " " \o HexEncodeToString(MetadataValue(Head(order)))
         \o MapEntriesAsm(Tail(order))

(* BurnOrdinals: the OP_RETURN output, with the MAP SET entries of         *)
(* config.Metadata when it has any; the output carries the script's asm,   *)
(* the trailing space trimmed.                                             *)
BurnOpReturn(config, order) ==
    IF Cardinality(config.Metadata) > 0
    THEN <<Step("out", "opreturn", 0, 0,
                OpReturnSize + MapHeaderSize + MapEntrySize * Cardinality(config.Metadata),
                "OP_FALSE OP_RETURN " \o HexEncodeToString(MAP_PREFIX)
                   \o " " \o HexEncodeToString("SET") \o MapEntriesAsm(order), -1)>>
    ELSE <<Step("out", "opreturn", 0, 0, OpReturnSize, "OP_FALSE OP_RETURN", -1)>>

BurnOrdinals(config, order) ==
    Cut(PaymentInputs(config.PaymentUtxos, config.PaymentPk,
                      "failed to create payment unlocker", "failed to add payment input")
        \o Flatten([i \in DOMAIN config.Ordinals |->
                      BurnOrdinalInput(config, config.Ordinals[i])])
        \o BurnOpReturn(config, order)
        \o ChangeIfAddress(config)
        \o FeeStep(FeeRateOf(config), "", -1)
        \o SignStep)

(* uint64(f) of a non-negative float64 f, held as the fraction num/den:    *)
(* the conversion truncates.                                               *)
Uint64OfFloat(f) == f.num \div f.den

(* A token output that carries 2 satoshis. *)
TokenOutputTwoSats(amount, omitMetadata) ==
    Output("token", 2, amount, IF omitMetadata THEN P2PKHSize ELSE Bsv21Size)

(* A TokenDistribution's output: 1 sat, the bsv-21 transfer inscription    *)
(* unless OmitMetadata.                                                    *)
TokenOutput(amount, omitMetadata) ==
    Output("token", 1, amount, IF omitMetadata THEN P2PKHSize ELSE Bsv21Size)

DeployBsv21Token(config) ==
    Cut((IF config.Symbol = "" THEN <<Fail("token symbol is required")>> ELSE <<>>)
        \o (IF IsNil(config.InitialDistribution)
            THEN <<Fail("initial distribution is required")>>
            ELSE IF Deref(config.InitialDistribution).Tokens.num <= 0
            THEN <<Fail("initial distribution amount must be greater than zero")>>
            ELSE <<>>)
        \o PaymentInputs(config.Utxos, config.PaymentPk,
                         "private key is required to sign the transaction",
                         "failed to add input")
        \o NewAddressFromString(config.DestinationAddress,
                                "failed to create destination address")
        \o (IF IsNil(config.InitialDistribution) THEN <<>>
            ELSE Output("token", 1, Uint64OfFloat(Deref(config.InitialDistribution).Tokens),
                        Bsv21Size))
        \o ChangeOrKeyRequired(config, "either changeAddress or paymentPk is required")
        \o ChangeIfAddress(config)
        \o FeeStep(FeeRateOf(config),
                   "not enough funds to deploy token. Total sats in: %d",
                   TotalSatoshis(config.Utxos))
        \o SignStep)

(* A split in which every output, the last included, gets tokensPerSplit. *)
SplitLoopEven(i, outs, tokensPerSplit, tokensLeft, omitMetadata) ==
    Flatten([j \in 1..outs |-> TokenOutput(tokensPerSplit, omitMetadata)])

RECURSIVE SplitLoop(_, _, _, _, _)
(* createSplitTokenOutputs: the loop "for i := 0; i < outputs && tokensLeft *)
(* > 0; i++", from iteration i on.                                         *)
SplitLoop(i, outs, tokensPerSplit, tokensLeft, omitMetadata) ==
    IF ~(i < outs /\ tokensLeft > 0) THEN <<>>
    ELSE LET outputAmount ==
                 IF i = outs - 1 \/ tokensLeft < tokensPerSplit
                 THEN tokensLeft ELSE tokensPerSplit
         IN TokenOutput(outputAmount, omitMetadata)
            \o SplitLoop(i + 1, outs, tokensPerSplit, tokensLeft - outputAmount,
                         omitMetadata)

createSplitTokenOutputs(config, remainingTokens) ==
    LET outputs0 == Deref(config.SplitConfig).Outputs
        threshold == IF IsNil(Deref(config.SplitConfig).Threshold) THEN 0
                     ELSE Uint64OfFloat(Deref(Deref(config.SplitConfig).Threshold))
        tokensPerSplit0 == remainingTokens \div outputs0
        reduce == tokensPerSplit0 < threshold /\ threshold > 0
        outs == IF ~reduce THEN outputs0
                ELSE IF remainingTokens \div threshold = 0 THEN 1
                ELSE remainingTokens \div threshold
        tokensPerSplit == IF reduce THEN remainingTokens \div outs ELSE tokensPerSplit0
    IN SplitLoop(0, outs, tokensPerSplit, remainingTokens, Deref(config.SplitConfig).OmitMetadata)

createSingleTokenChangeOutput(config, remainingTokens) ==
    TokenOutput(remainingTokens,
                ~IsNil(config.SplitConfig) /\ Deref(config.SplitConfig).OmitMetadata)

(* TransferOrdTokens: totalTokens and distributedTokens as the loops       *)
(* accumulate them.                                                        *)
TotalTokens(config) ==
    SumNat([i \in DOMAIN config.InputTokens |-> config.InputTokens[i].Amount])

DistributedTokens(config) ==
    SumNat([i \in DOMAIN config.Distributions |->
              Uint64OfFloat(config.Distributions[i].Tokens)])

(* TransferOrdTokens: the handling of the tokens left after distribution. *)
TokenChange(config) ==
    LET remainingTokens == TotalTokens(config) - DistributedTokens(config)
    IN IF ~(remainingTokens > 0 /\ ~config.Burn) THEN <<>>
       ELSE ChangeOrKeyRequired(config, "ordPk or changeAddress required for token change")
            \o (IF config.TokenInputMode \in {"all", ""}
                THEN IF ~IsNil(config.SplitConfig) /\ Deref(config.SplitConfig).Outputs > 1
                     THEN createSplitTokenOutputs(config, remainingTokens)
                     ELSE createSingleTokenChangeOutput(config, remainingTokens)
                ELSE IF config.TokenInputMode = "needed"
                THEN createSingleTokenChangeOutput(config, remainingTokens)
                ELSE <<>>)

TransferOrdTokens(config) ==
    Cut((IF config.Protocol # "bsv-21" THEN <<Fail("invalid protocol")>> ELSE <<>>)
        \o (IF \E i \in DOMAIN config.InputTokens :
                   config.InputTokens[i].TokenID # config.TokenID
            THEN <<Fail("input tokens do not match the provided tokenID")>>
            ELSE <<>>)
        \o Flatten([i \in DOMAIN config.InputTokens |->
                      InputFrom("token", config.InputTokens[i], config.OrdPk,
                                "private key required for token input",
                                "failed to add token input")])
        \o Flatten([i \in DOMAIN config.Distributions |->
                      TokenOutput(Uint64OfFloat(config.Distributions[i].Tokens),
                                  config.Distributions[i].OmitMetadata)])
        \o (IF DistributedTokens(config) > TotalTokens(config)
            THEN <<Fail("not enough tokens to satisfy the transfer amount")>>
            ELSE TokenChange(config))
        \o PaymentInputs(config.Utxos, config.PaymentPk,
                         "private key required for payment utxo",
                         "failed to add payment input")
        \o ChangeIfAddress(config)
        \o FeeStep(FeeRateOf(config),
                   "not enough funds to transfer tokens. Total sats in: %d",
                   TotalSatoshis(config.Utxos))
        \o SignStep)

(* A nil pointer dereference: the call panics. *)
Panic(msg) == <<Step("panic", "", 0, 0, 0, msg, -1)>>

(* CreateOrdListings: one iteration of the loop over config.Listings. *)
OrdListing(config, listing) ==
    InputFrom("ordinal", listing.ListingUtxo, config.OrdPk,
              "failed to create ordinal unlocker", "failed to add ordinal input")
    \o NewAddressFromString(listing.OrdAddress, "failed to create seller address")
    \o NewAddressFromString(listing.PayAddress, "failed to create pay address")
    \o Output("listing", 1, 0, P2PKHSize)

CreateOrdListings(config) ==
    Cut(PaymentInputs(config.Utxos, config.PaymentPk, "failed to create unlocker",
                      "failed to add input")
        \o Flatten([i \in DOMAIN config.Listings |-> OrdListing(config, config.Listings[i])])
        \o ChangeIfAddress(config)
        \o FeeStep(FeeRateOf(config), "", -1)
        \o SignStep)

PurchaseOrdListing(config) ==
    Cut(PaymentInputs(config.Utxos, config.PaymentPk, "failed to create unlocker",
                      "failed to add input")
        \o (IF config.PaymentPk = "nil"
            THEN <<Fail("failed to create ordinal unlocker")>>
            ELSE IF IsNil(config.ListingUtxo)
            THEN Panic("nil pointer dereference")
            ELSE <<InStep("listing", Deref(config.ListingUtxo),
                          "failed to add ordinal input")>>)
        \o NewAddressFromString(config.OrdAddress, "failed to create destination address")
        \o Output("ordinal", 1, 0, P2PKHSize)
        \o ChangeIfAddress(config)
        \o FeeStep(FeeRateOf(config), "", -1)
        \o SignStep)

(* CancelOrdListings: one iteration of the loop over config.ListingUtxos. *)
CancelOrdListing(config, listingUtxo) ==
    InputFrom("listing", listingUtxo, config.OrdPk,
              "failed to create ordinal unlocker", "failed to add ordinal input")
    \o Output("ordinal", 1, 0, P2PKHSize)

CancelOrdListings(config) ==
    Cut(PaymentInputs(config.Utxos, config.PaymentPk, "failed to create unlocker",
                      "failed to add input")
        \o Flatten([i \in DOMAIN config.ListingUtxos |->
                      CancelOrdListing(config, config.ListingUtxos[i])])
        \o ChangeIfAddress(config)
        \o FeeStep(FeeRateOf(config), "", -1)
        \o SignStep)

PurchaseOrdTokenListing(config) ==
    Cut((IF config.PaymentPk = "nil"
         THEN <<Fail("private key is required to sign the transaction")>> ELSE <<>>)
        \o (IF IsNil(config.ListingUtxo) THEN <<Fail("listing UTXO is required")>> ELSE <<>>)
        \o (IF config.OrdAddress = ""
            THEN <<Fail("destination address is required")>> ELSE <<>>)
        \o ChangeOrKeyRequired(config, "either changeAddress or paymentPk is required")
        \o (IF IsNil(config.ListingUtxo) THEN <<>>
            ELSE InputFrom("listing", Deref(config.ListingUtxo), config.PaymentPk,
                           "failed to create listing unlocker",
                           "failed to add listing input")
                 \o NewAddressFromString(config.OrdAddress,
                                         "failed to create destination address")
                 \o (IF config.Protocol = "bsv-21" THEN <<>>
                     ELSE <<Fail("unsupported token protocol")>>)
                 \o Output("token", 1, Deref(config.ListingUtxo).Amount, Bsv21Size)
                 \o Output("payment", Deref(config.ListingUtxo).Amount * 100, 0, P2PKHSize))
        \o PaymentOutputs(config.AdditionalPayments)
        \o PaymentInputs(config.Utxos, config.PaymentPk,
                         "private key is required to sign the payment",
                         "failed to add payment input")
        \o ChangeIfAddress(config)
        \o FeeStep(FeeRateOf(config),
                   "not enough funds to purchase token listing. Total sats in: %d",
                   TotalSatoshis(config.Utxos))
        \o SignStep)

(* CreateOrdTokenListings: one iteration of the loop over config.Listings. *)
OrdTokenListing(config, listing) ==
    IF IsNil(listing.ListingUtxo)
    THEN <<Fail("token UTXO is required for listing")>>
    ELSE IF listing.OrdAddress = ""
    THEN <<Fail("token owner address is required for listing")>>
    ELSE IF listing.PayAddress = ""
    THEN <<Fail("payment address is required for listing")>>
    ELSE InputFrom("token", Deref(listing.ListingUtxo), config.OrdPk,
                   "private key is required to sign the token input",
                   "failed to add token input")
         \o NewAddressFromString(listing.OrdAddress, "failed to create seller address")
         \o NewAddressFromString(listing.PayAddress, "failed to create pay address")
         \o Output("listing", 1, Deref(listing.ListingUtxo).Amount, P2PKHSize)

CreateOrdTokenListings(config) ==
    Cut((IF config.PaymentPk = "nil"
         THEN <<Fail("payment private key is required to sign the transaction")>>
         ELSE <<>>)
        \o (IF config.OrdPk = "nil"
            THEN <<Fail("token private key is required to sign the transaction")>>
            ELSE <<>>)
        \o (IF Len(config.Listings) = 0
            THEN <<Fail("at least one listing is required")>> ELSE <<>>)
        \o ChangeOrKeyRequired(config, "either changeAddress or paymentPk is required")
        \o PaymentInputs(config.Utxos, config.PaymentPk,
                         "private key is required to sign the payment",
                         "failed to add payment input")
        \o Flatten([i \in DOMAIN config.Listings |->
                      OrdTokenListing(config, config.Listings[i])])
        \o ChangeIfAddress(config)
        \o FeeStep(FeeRateOf(config),
                   "not enough funds to create token listings. Total sats in: %d",
                   TotalSatoshis(config.Utxos))
        \o SignStep)

(* CancelOrdTokenListings: one iteration of the loop over ListingUtxos. *)
CancelOrdTokenListing(config, listingUtxo) ==
    IF listingUtxo.Protocol = ""
    THEN <<Fail("token protocol is required for listing UTXO")>>
    ELSE IF listingUtxo.TokenID = ""
    THEN <<Fail("token ID is required for listing UTXO")>>
    ELSE InputFrom("listing", listingUtxo, config.OrdPk,
                   "private key is required to sign the listing",
                   "failed to add listing input")
         \o (IF listingUtxo.Protocol = "bsv-21" THEN <<>>
             ELSE <<Fail("unsupported token protocol")>>)
         \o Output("token", 1, listingUtxo.Amount, Bsv21Size)

CancelOrdTokenListings(config) ==
    Cut((IF config.PaymentPk = "nil"
         THEN <<Fail("payment private key is required to sign the transaction")>>
         ELSE <<>>)
        \o (IF config.OrdPk = "nil"
            THEN <<Fail("token private key is required to sign the transaction")>>
            ELSE <<>>)
        \o (IF Len(config.ListingUtxos) = 0
            THEN <<Fail("at least one listing UTXO is required")>> ELSE <<>>)
        \o ChangeOrKeyRequired(config, "either changeAddress or paymentPk is required")
        \o PaymentInputs(config.Utxos, config.PaymentPk,
                         "private key is required to sign the payment",
                         "failed to add payment input")
        \o Flatten([i \in DOMAIN config.ListingUtxos |->
                      CancelOrdTokenListing(config, config.ListingUtxos[i])])
        \o ChangeIfAddress(config)
        \o FeeStep(FeeRateOf(config),
                   "not enough funds to cancel token listings. Total sats in: %d",
                   TotalSatoshis(config.Utxos))
        \o SignStep)

-----------------------------------------------------------------------------
(* The legacy transaction builder (transaction.go), on go-bt and           *)
(* go-bitcoin.                                                             *)

(* Bytes of the "31736174 OP_DROP" prefix of a 1sat ordinal output, and of *)
(* an input without its unlocking script.                                  *)
OrdPrefixSize == 6
UnsignedInputSize == 41

(* bt.DefaultStandardFee(): 5 satoshis per 10 bytes. *)
DefaultStandardFee == [Satoshis |-> 5, Bytes |-> 10]

(* The inputs and outputs a sequence of engine operations builds. *)
InputsOf(steps) == SelectSeq(steps, LAMBDA st : st.op = "in" /\ ~Rejected(st))
OutputsOf(steps) == SelectSeq(steps, LAMBDA st : st.op \in {"out", "change"})
Failed(steps) ==
    steps # <<>> /\ (steps[Len(steps)].op \in {"err", "panic"} \/ Rejected(steps[Len(steps)]))

(* CreateTx: one iteration of the loop over the pay addresses. *)
PayToOutput(address, opReturns, ordinal) ==
    IF address.Satoshis = 1 /\ ordinal
    THEN Output("ordinal", address.Satoshis, 0, P2PKHSize + OrdPrefixSize)
         \o (IF Len(opReturns) = 0 THEN Panic("index out of range")
             ELSE Output("opreturn", 0, 0, opReturns[1].size))
    ELSE Output(address.kind, address.Satoshis, 0, P2PKHSize)

CreateTx(utxos, addresses, opReturns, privateKey, ordinal) ==
    Cut(Flatten([i \in DOMAIN utxos |->
                   <<InStep("payment", utxos[i], "")>>])
        \o Flatten([i \in DOMAIN addresses |->
                      PayToOutput(addresses[i], opReturns, ordinal)])
        \o (IF Len(utxos) > 0
               /\ SumNat([i \in DOMAIN addresses |-> addresses[i].Satoshis])
                    > TotalSatoshis(utxos)
            THEN <<Fail("not enough in utxo(s) to cover")>> ELSE <<>>)
        \o (IF privateKey # "nil" THEN SignStep
            ELSE <<Step("return", "", 0, 0, 0, "", -1)>>))

(* bitcoin.CalculateFeeForTx: the data outputs at the data rate, the rest  *)
(* of the serialized transaction at the standard rate, at least 1.         *)
CalculateFeeForTx(ins, outs, isSigned, standardRate, dataRate) ==
    LET std == IF IsNil(standardRate) THEN DefaultStandardFee ELSE Deref(standardRate)
        dat == IF IsNil(dataRate) THEN DefaultStandardFee ELSE Deref(dataRate)
        totalBytes == TxOverhead
                      + Len(ins) * (IF isSigned THEN InputSize ELSE UnsignedInputSize)
                      + SumSizes(outs)
        totalDataBytes == SumSizes(SelectSeq(outs, LAMBDA o : o.kind = "opreturn"))
        totalFee == (dat.Satoshis * totalDataBytes) \div dat.Bytes
                    + (std.Satoshis * (totalBytes - totalDataBytes)) \div std.Bytes
    IN IF totalFee = 0 THEN 1 ELSE totalFee

(* draftTx: the fee of the draft transaction plus one satoshi. *)
draftTx(utxos, payToAddresses, opReturns, privateKey, standardRate, dataRate, sendingOrdinal) ==
    LET tx == CreateTx(utxos, payToAddresses, opReturns, privateKey, sendingOrdinal)
    IN CalculateFeeForTx(InputsOf(tx), OutputsOf(tx), privateKey # "nil",
                         standardRate, dataRate) + 1

PayTo(kind, sats) == [kind |-> kind, Satoshis |-> sats]

(* The last pay-to whose amount exceeds the remainder, 0 when none does. *)
LastAbove(payToAddresses, remainder) ==
    LET S == {i \in DOMAIN payToAddresses : payToAddresses[i].Satoshis > remainder}
    IN IF S = {} THEN 0 ELSE CHOOSE i \in S : \A j \in S : j <= i

CreateTxWithChange(config) ==
    LET utxos == config.utxos
        payTo == config.payToAddresses
        totalSatoshis == TotalSatoshis(utxos)
        totalPayToSatoshis == SumNat([i \in DOMAIN payTo |-> payTo[i].Satoshis])
        hasChange == totalPayToSatoshis # totalSatoshis
        draft(addresses) ==
            CreateTx(utxos, addresses, config.opReturns, config.privateKey,
                     config.sendingOrdinal)
        feeOf(addresses) ==
            draftTx(utxos, addresses, config.opReturns, config.privateKey,
                    config.standardRate, config.dataRate, config.sendingOrdinal)
        withChange(sats) ==
            IF hasChange THEN Append(payTo, PayTo("change", sats)) ELSE payTo
        draft1 == withChange(totalSatoshis - (totalPayToSatoshis + 1))
        fee1 == feeOf(draft1)
        fee2 == feeOf(payTo)
        totalToPay == totalPayToSatoshis + fee2
        remainder == IF totalToPay >= totalSatoshis THEN totalToPay - totalSatoshis
                     ELSE totalSatoshis - totalToPay
        k == LastAbove(payTo, remainder)
        adjusted == [payTo EXCEPT ![k].Satoshis = payTo[k].Satoshis - remainder]
        lastOf(steps) == <<steps[Len(steps)]>>
    IN IF Len(utxos) = 0 THEN <<Fail("UTXOs required")>>
       ELSE IF config.changeAddress = "" THEN <<Fail("change address required")>>
       ELSE IF totalPayToSatoshis > totalSatoshis
       THEN <<Fail("not enough in utxo(s) to cover")>>
       ELSE IF Failed(draft(draft1)) THEN lastOf(draft(draft1))
       ELSE IF totalPayToSatoshis + fee1 > totalSatoshis
       THEN IF Failed(draft(payTo))
            THEN <<Step("draft", "", fee1, 0, 0, "", -1)>> \o lastOf(draft(payTo))
            ELSE <<Step("draft", "", fee1, 0, 0, "", -1),
                   Step("draft", "", fee2, 0, 0, "", -1)>>
                 \o (IF k = 0
                     THEN <<Fail("auto-fee could not be applied without removing an output")>>
                     ELSE <<Step("adjust", "", adjusted[k].Satoshis, 0, 0, "", k)>>
                          \o draft(adjusted))
       ELSE <<Step("draft", "", fee1, 0, 0, "", -1)>>
            \o draft(withChange(totalSatoshis - (totalPayToSatoshis + fee1)))

-----------------------------------------------------------------------------
(* float64 arithmetic of token_utils.go.  A float64 of the range the       *)
(* token amounts span is held exactly as a fixed-point binary numeral:     *)
(* IntBits bits before the point and FracBits after, most significant      *)
(* first.  Each operation computes the exact result and rounds it to the   *)
(* 53 significant bits of a float64, ties to even.                         *)

Float64Bits == 64
IntBits == 5
FracBits == Float64Bits - IntBits
Mantissa == 53

Zeros(k) == [i \in 1..k |-> 0]

RECURSIVE Pow(_, _)
Pow(b, k) == IF k = 0 THEN 1 ELSE b * Pow(b, k - 1)

(* The k-bit numeral of the natural n. *)
NatBits(n, k) == [i \in 1..k |-> (n \div Pow(2, k - i)) % 2]

(* The natural the eight bits of x from bit i on spell. *)
ByteAt(x, i) ==
    128 * x[i] + 64 * x[i + 1] + 32 * x[i + 2] + 16 * x[i + 3]
      + 8 * x[i + 4] + 4 * x[i + 5] + 2 * x[i + 6] + x[i + 7]

RECURSIVE DivBits(_, _, _, _, _)
(* Long division of the numeral x by the natural D, a byte at a time from  *)
(* bit i on.                                                               *)
DivBits(x, D, i, r, q) ==
    IF i > Len(x) THEN [q |-> q, r |-> r]
    ELSE LET r2 == 256 * r + ByteAt(x, i)
         IN DivBits(x, D, i + 8, r2 % D, q \o NatBits(r2 \div D, 8))

RECURSIVE MulBits(_, _, _, _)
(* The numeral times the natural k < 128, a byte at a time up from the     *)
(* byte that ends at bit i; the product is seven bits longer.              *)
MulBits(x, k, i, carry) ==
    IF i = 0 THEN NatBits(carry, 7)
    ELSE LET v == ByteAt(x, i - 7) * k + carry
         IN MulBits(x, k, i - 8, v \div 256) \o NatBits(v % 256, 8)

(* The numeral plus one unit of its bit i: the ones that end at bit i turn *)
(* to zeros and the zero before them to one.                               *)
IncBits(x, i) ==
    LET z == CHOOSE j \in 0..i :
                 /\ j = 0 \/ x[j] = 0
                 /\ \A k \in (j + 1)..i : x[k] = 1
    IN [k \in DOMAIN x |-> IF k = z THEN 1 ELSE IF k > z /\ k <= i THEN 0 ELSE x[k]]

(* The sum of two numerals of the same length: a bit receives a carry when *)
(* some lower bit generates one and all bits between propagate it.         *)
AddBits(x, y) ==
    LET carry(i) == \E j \in (i + 1)..Len(x) :
                        /\ x[j] + y[j] = 2
                        /\ \A k \in (i + 1)..(j - 1) : x[k] + y[k] = 1
    IN [i \in DOMAIN x |-> (x[i] + y[i] + IF carry(i) THEN 1 ELSE 0) % 2]

LeadingOne(x) ==
    IF \A i \in DOMAIN x : x[i] = 0 THEN 0
    ELSE CHOOSE i \in DOMAIN x : x[i] = 1 /\ \A j \in 1..(i - 1) : x[j] = 0

(* Round to nearest, ties to even, at Mantissa significant bits; sticky    *)
(* tells that the exact value has non-zero bits beyond the numeral.        *)
RoundToFloat64(x, sticky) ==
    LET p == LeadingOne(x)
        last == p + Mantissa - 1
    IN IF p = 0 \/ last >= Len(x) THEN x
       ELSE LET rest == sticky \/ \E j \in (last + 2)..Len(x) : x[j] = 1
                roundUp == x[last + 1] = 1 /\ (rest \/ x[last] = 1)
                keep == SubSeq(x, 1, last)
            IN (IF roundUp THEN IncBits(keep, last) ELSE keep) \o Zeros(Len(x) - last)

(* float64(n) of a small natural n *)
Float64OfNat(n) == NatBits(n, IntBits) \o Zeros(FracBits)

(* x + y of float64 *)
Float64Add(x, y) ==
    Tail(RoundToFloat64(AddBits(<<0>> \o x, <<0>> \o y), FALSE))

(* x >= y of float64 *)
Float64Geq(x, y) ==
    LET D == {i \in DOMAIN x : x[i] # y[i]}
    IN D = {} \/ x[CHOOSE i \in D : \A j \in D : i <= j] = 1

(* ToToken: float64(amount) / math.Pow10(int(decimals)) *)
ToToken(amount, decimals) ==
    LET d == DivBits(Float64OfNat(amount) \o Zeros(8), Pow(10, decimals), 1, 0, <<>>)
    IN SubSeq(RoundToFloat64(d.q, d.r # 0), 1, IntBits + FracBits)

-----------------------------------------------------------------------------
(* SelectTokenUtxos (token_utils.go).                                      *)

(* Go slices.  The heap is the sequence of the backing arrays allocated so *)
(* far; a slice is a header naming its backing array and its length, and   *)
(* two slices with the same array share their elements.                    *)
Slice(array, len) == [array |-> array, len |-> len]

(* The elements read through a slice. *)
ReadSlice(heap, s) == SubSeq(heap[s.array], 1, s.len)

(* Writing the elements of a slice in place, as sort.Slice and             *)
(* rand.Shuffle do: the backing array changes, for every slice on it.      *)
WriteSlice(heap, s, elems) ==
    [heap EXCEPT ![s.array] = elems \o SubSeq(@, s.len + 1, Len(@))]

(* make([]*TokenUtxo, n): a new backing array of n nil pointers. *)
MakeSlice(heap, n) ==
    [heap |-> Append(heap, [i \in 1..n |-> Nil]), slice |-> Slice(Len(heap) + 1, n)]

(* copy(dst, src): the first min(len(dst), len(src)) elements of src are   *)
(* written into the backing array of dst.                                  *)
CopySlice(heap, dst, src) ==
    LET n == IF dst.len < src.len THEN dst.len ELSE src.len
    IN [heap EXCEPT ![dst.array] =
           [i \in DOMAIN @ |-> IF i <= n THEN heap[src.array][i] ELSE @[i]]]

(* sortedUtxos := tokenUtxos: a slice that shares the caller's backing     *)
(* array.                                                                  *)
MakeCopyAliased(heap, tokenUtxos) == [heap |-> heap, slice |-> tokenUtxos]

(* sortedUtxos := make([]*TokenUtxo, len(tokenUtxos));                     *)
(* copy(sortedUtxos, tokenUtxos)                                           *)
MakeCopy(heap, tokenUtxos) ==
    LET made == MakeSlice(heap, tokenUtxos.len)
    IN [heap |-> CopySlice(made.heap, made.slice, tokenUtxos), slice |-> made.slice]

(* selectedUtxos := []*TokenUtxo{} grown by append: the elements end up in *)
(* a backing array that append allocated.                                  *)
AppendedSlice(heap, elems) ==
    [heap |-> Append(heap, elems), slice |-> Slice(Len(heap) + 1, Len(elems))]

(* A sort that leaves the slice as it is. *)
OrdersRetained(s, strategy) == {s}

Reorderings(s) ==
    {[i \in DOMAIN s |-> s[p[i]]] :
        p \in {f \in [DOMAIN s -> DOMAIN s] : \A i, j \in DOMAIN s : i # j => f[i] # f[j]}}

(* The orders sort.Slice (not stable) or rand.Shuffle can leave the list   *)
(* in under a strategy.                                                    *)
Orders(s, strategy) ==
    CASE strategy = "smallest" ->
           {t \in Reorderings(s) :
               \A i \in 1..(Len(t) - 1) : t[i].Amount <= t[i + 1].Amount}
      [] strategy = "largest" ->
           {t \in Reorderings(s) :
               \A i \in 1..(Len(t) - 1) : t[i].Amount >= t[i + 1].Amount}
      [] strategy = "random" -> Reorderings(s)
      [] OTHER -> {s}

RECURSIVE SelectLoopLate(_, _, _, _, _, _)
(* A selection loop that tests the total of the previous iteration: it     *)
(* stops one item late.                                                    *)
SelectLoopLate(sortedUtxos, requiredTokens, decimals, i, selectedUtxos, totalSelected) ==
    IF i > Len(sortedUtxos)
    THEN [SelectedUtxos |-> selectedUtxos, TotalSelected |-> totalSelected]
    ELSE LET selected == Append(selectedUtxos, sortedUtxos[i])
             total == Float64Add(totalSelected, ToToken(sortedUtxos[i].Amount, decimals))
         IN IF Float64Geq(totalSelected, requiredTokens)
               /\ ~Float64Geq(Float64OfNat(0), requiredTokens)
            THEN [SelectedUtxos |-> selected, TotalSelected |-> total]
            ELSE SelectLoopLate(sortedUtxos, requiredTokens, decimals, i + 1, selected, total)

RECURSIVE SelectLoop(_, _, _, _, _, _)
(* The selection loop from element i on: append, accumulate, stop once     *)
(* the total reaches a positive requirement.                               *)
SelectLoop(sortedUtxos, requiredTokens, decimals, i, selectedUtxos, totalSelected) ==
    IF i > Len(sortedUtxos)
    THEN [SelectedUtxos |-> selectedUtxos, TotalSelected |-> totalSelected]
    ELSE LET selected == Append(selectedUtxos, sortedUtxos[i])
             total == Float64Add(totalSelected, ToToken(sortedUtxos[i].Amount, decimals))
         IN IF Float64Geq(total, requiredTokens) /\ ~Float64Geq(Float64OfNat(0), requiredTokens)
            THEN [SelectedUtxos |-> selected, TotalSelected |-> total]
            ELSE SelectLoop(sortedUtxos, requiredTokens, decimals, i + 1, selected, total)

(* The options the function works with: defaults for a nil pointer and     *)
(* for empty strategies.                                                   *)
DefaultedOptions(options) ==
    LET o == IF IsNil(options) THEN [InputStrategy |-> "retain", OutputStrategy |-> "retain"]
             ELSE Deref(options)
    IN [InputStrategy |-> IF o.InputStrategy = "" THEN "retain" ELSE o.InputStrategy,
        OutputStrategy |-> IF o.OutputStrategy = "" THEN "retain" ELSE o.OutputStrategy]

(* The results SelectTokenUtxos can return. *)
SelectTokenUtxos(tokenUtxos, requiredTokens, decimals, options) ==
    LET o == DefaultedOptions(options)
    IN {[SelectedUtxos |-> out, TotalSelected |-> r.TotalSelected,
         IsEnough |-> Float64Geq(r.TotalSelected, requiredTokens)] :
          <<r, out>> \in
             UNION {{<<l, t>> : t \in Orders(l.SelectedUtxos, o.OutputStrategy)} :
                      l \in {SelectLoop(sorted, requiredTokens, decimals, 1, <<>>,
                                        Float64OfNat(0)) :
                               sorted \in Orders(tokenUtxos, o.InputStrategy)}}}

-----------------------------------------------------------------------------
(* The configs the callers pass.                                           *)

PaymentSats == {100}
OrdinalSats == {1, 2}
Rates == {0, 500}
Keys == {"nil", "pk"}
Addresses == {"", "addr"}

(* The outpoints of the UTXOs: a well-formed one, and one whose            *)
(* transaction id is not hex.                                              *)
TxIDs == {ValidTxID, InvalidTxID}
Scripts == {ValidScript}

Utxos(S) == SeqsUpTo([Satoshis : S, TxID : TxIDs, ScriptPubKey : Scripts], MaxUtxos)
PayTos == SeqsUpTo([Satoshis : {5}], MaxPayments)
DestinationSet ==
    {[Inscription |-> TRUE, omitMetadata |-> FALSE],
     [Inscription |-> FALSE, omitMetadata |-> FALSE],
     [Inscription |-> TRUE, omitMetadata |-> TRUE]}

SendOrdinalsConfigs ==
    [PaymentUtxos : Utxos(PaymentSats), Ordinals : Utxos(OrdinalSats),
     PaymentPk : Keys, OrdPk : Keys,
     Destinations : SeqsUpTo(DestinationSet, MaxUtxos),
     ChangeAddress : Addresses, SatsPerKb : Rates,
     AdditionalPayments : PayTos,
     EnforceUniformSend : {"unset", "true", "false"}]

CreateOrdinalsConfigs ==
    [Utxos : Utxos(PaymentSats), Destinations : SeqsUpTo(DestinationSet, MaxUtxos),
     PaymentPk : Keys, ChangeAddress : Addresses, SatsPerKb : Rates,
     AdditionalPayments : PayTos]

Float(n, d) == [num |-> n, den |-> d]

DeployBsv21TokenConfigs ==
    [Symbol : {"", "SYM"},
     InitialDistribution :
         Pointers([Tokens : {Float(-1, 1), Float(0, 1), Float(1, 2), Float(21, 1)}]),
     Utxos : Utxos(PaymentSats), PaymentPk : Keys,
     DestinationAddress : Addresses, ChangeAddress : Addresses, SatsPerKb : Rates]

TokenUtxoSet ==
    {[Satoshis |-> 1, TokenID |-> "id", Amount |-> 5,
      TxID |-> ValidTxID, ScriptPubKey |-> ValidScript],
     [Satoshis |-> 2, TokenID |-> "id", Amount |-> 2,
      TxID |-> ValidTxID, ScriptPubKey |-> ValidScript],
     [Satoshis |-> 1, TokenID |-> "other", Amount |-> 1,
      TxID |-> ValidTxID, ScriptPubKey |-> ValidScript],
     [Satoshis |-> 1, TokenID |-> "id", Amount |-> 5,
      TxID |-> InvalidTxID, ScriptPubKey |-> ValidScript]}

DistributionSet ==
    [Tokens : {Float(1, 2), Float(2, 1), Float(11, 2), Float(8, 1)}, OmitMetadata : BOOLEAN]

SplitConfigSet ==
    Pointers([Outputs : {1, 3}, Threshold : Pointers({Float(2, 1), Float(5, 2)}),
              OmitMetadata : BOOLEAN])

(* The transfers: the token side in full with the funding fixed, and the   *)
(* protocol, keys and funding in full with a plain token side.             *)
TransferBsv21TokenConfigs ==
    [Protocol : {"bsv-21"}, TokenID : {"id"}, Utxos : {<<[Satoshis |-> 100, TxID |-> ValidTxID, ScriptPubKey |-> ValidScript]>>},
     InputTokens : SeqsUpTo(TokenUtxoSet, MaxUtxos),
     Distributions : SeqsUpTo(DistributionSet, MaxPayments),
     PaymentPk : {"pk"}, OrdPk : {"pk"}, Burn : BOOLEAN,
     ChangeAddress : Addresses, SatsPerKb : {0},
     TokenInputMode : {"", "all", "needed", "other"}, SplitConfig : SplitConfigSet,
     Decimals : {0}]
    \cup
    [Protocol : {"bsv-21", "bsv-20"}, TokenID : {"id"}, Utxos : Utxos(PaymentSats),
     InputTokens : SeqsUpTo(TokenUtxoSet, 1),
     Distributions : SeqsUpTo([Tokens : {Float(2, 1)}, OmitMetadata : {FALSE}], MaxPayments),
     PaymentPk : Keys, OrdPk : Keys, Burn : {FALSE},
     ChangeAddress : Addresses, SatsPerKb : Rates,
     TokenInputMode : {""}, SplitConfig : {Nil}, Decimals : {0, 2}]

CreateOrdListingsConfigs ==
    [Utxos : Utxos(PaymentSats),
     Listings : SeqsUpTo([PayAddress : {"addr"}, Price : {5},
                          ListingUtxo : [Satoshis : OrdinalSats, TxID : TxIDs,
                                         ScriptPubKey : Scripts],
                          OrdAddress : Addresses], MaxUtxos),
     PaymentPk : Keys, OrdPk : Keys, ChangeAddress : Addresses, SatsPerKb : Rates]

PurchaseOrdListingConfigs ==
    [Utxos : Utxos(PaymentSats), PaymentPk : Keys,
     ListingUtxo : Pointers([Satoshis : OrdinalSats, TxID : TxIDs,
                             ScriptPubKey : Scripts]),
     OrdAddress : Addresses, ChangeAddress : Addresses, SatsPerKb : Rates]

CancelOrdListingsConfigs ==
    [Utxos : Utxos(PaymentSats), ListingUtxos : Utxos(OrdinalSats),
     OrdPk : Keys, PaymentPk : Keys, ChangeAddress : Addresses, SatsPerKb : Rates]

PurchaseOrdTokenListingConfigs ==
    [Protocol : {"bsv-21", "bsv-20"}, TokenID : {"id"}, Utxos : Utxos(PaymentSats),
     PaymentPk : Keys,
     ListingUtxo : Pointers([Satoshis : OrdinalSats, Amount : {1}, TxID : TxIDs,
                             ScriptPubKey : Scripts]),
     OrdAddress : Addresses, ChangeAddress : Addresses, SatsPerKb : Rates,
     AdditionalPayments : PayTos]

CreateOrdTokenListingsConfigs ==
    [Utxos : Utxos(PaymentSats),
     Listings : SeqsUpTo([PayAddress : Addresses, Price : {5},
                          ListingUtxo : Pointers([Satoshis : OrdinalSats, Amount : {3},
                                                  TxID : TxIDs, ScriptPubKey : Scripts]),
                          OrdAddress : Addresses], MaxListings),
     PaymentPk : Keys, OrdPk : Keys, ChangeAddress : Addresses, SatsPerKb : Rates]

CancelOrdTokenListingsConfigs ==
    [Utxos : Utxos(PaymentSats),
     ListingUtxos : SeqsUpTo([Satoshis : OrdinalSats, Protocol : {"", "bsv-21", "bsv-20"},
                              TokenID : {"", "id"}, Amount : {3}, TxID : TxIDs,
                              ScriptPubKey : Scripts], MaxListings),
     OrdPk : Keys, PaymentPk : Keys, ChangeAddress : Addresses, SatsPerKb : Rates]

LegacySats == {44, 1000}
LegacyPaySats == {1, 44, 500}

CreateTxWithChangeConfigs ==
    [utxos : Utxos(LegacySats),
     payToAddresses : SeqsUpTo({PayTo("payment", v) : v \in LegacyPaySats}, MaxUtxos),
     opReturns : SeqsUpTo({[size |-> 20]}, 1),
     changeAddress : Addresses,
     standardRate : Pointers({[Satoshis |-> 50, Bytes |-> 1000]}),
     dataRate : {Nil},
     privateKey : Keys, sendingOrdinal : BOOLEAN]

MetadataSets == {{}, {"app"}, {"app", "type"}}

BurnOrdinalsConfigs ==
    [PaymentUtxos : Utxos(PaymentSats), PaymentPk : Keys,
     Ordinals : Utxos(OrdinalSats), OrdPk : Keys, Metadata : MetadataSets,
     ChangeAddress : Addresses, SatsPerKb : Rates]

SendUtxosConfigs ==
    [Utxos : SeqsUpTo([Satoshis : PaymentSats, TxID : TxIDs,
                       ScriptPubKey : {ValidScript, InvalidScript}], MaxUtxos),
     PaymentPk : Keys, Payments : PayTos, ChangeAddress : Addresses, SatsPerKb : Rates]

-----------------------------------------------------------------------------
(* The state machine.                                                      *)

(* The calls of createSplitTokenOutputs: a remaining amount and a split    *)
(* configuration.                                                          *)
MaxRemaining == 12
MaxSplitOutputs == 4

SplitCalls ==
    [remainingTokens : 1..MaxRemaining,
     SplitConfig : {<<c>> : c \in
        [Outputs : 1..MaxSplitOutputs,
         Threshold : Pointers({Float(0, 1), Float(1, 2), Float(2, 1), Float(5, 2), Float(5, 1)}),
         OmitMetadata : BOOLEAN]}]

(* The calls of SelectTokenUtxos. *)
MaxTokens == 3
TokenAmounts == {1, 2, 7}
TokenDecimals == {0, 1}
RequiredRaw == {0, 3, 10}
Strategies == {"", "smallest", "largest", "retain", "random"}

TokenUtxoList(amounts) == [i \in DOMAIN amounts |-> [Vout |-> i, Amount |-> amounts[i]]]

(* A call: tokenUtxos is the caller's list as the caller reads it through  *)
(* its slice, caller that slice, selected the slice of selectedUtxos.      *)
NoSel ==
    [called |-> FALSE, tokenUtxos |-> <<>>, requiredTokens |-> Float64OfNat(0),
     decimals |-> 0, options |-> Nil, loop |-> Nil, result |-> Nil,
     heap |-> <<>>, caller |-> Slice(0, 0), selected |-> Slice(0, 0)]

SelectCalls ==
    {[called |-> FALSE, tokenUtxos |-> TokenUtxoList(amounts), requiredTokens |-> ToToken(r, 1),
      decimals |-> d, options |-> o, loop |-> Nil, result |-> Nil,
      heap |-> <<TokenUtxoList(amounts)>>, caller |-> Slice(1, Len(amounts)),
      selected |-> Slice(0, 0)] :
        amounts \in SeqsUpTo(TokenAmounts, MaxTokens), r \in RequiredRaw, d \in TokenDecimals,
        o \in Pointers([InputStrategy : Strategies, OutputStrategy : Strategies])}

-----------------------------------------------------------------------------
(* No utility function has been called. *)
NoCall == [name |-> "none", args |-> <<>>, result |-> <<>>]

Init ==
    /\ fn = "none"
    /\ cfg = [none |-> TRUE]
    /\ plan = <<>>
    /\ pc = 1
    /\ inputs = <<>>
    /\ outputs = <<>>
    /\ fee = -1
    /\ err = NoErr
    /\ ret = "none"
    /\ signed = 0
    /\ sel = NoSel
    /\ util = NoCall

(* A builder is called: tx := transaction.NewTransaction(). *)
Call(name, config, steps) ==
    /\ fn' = name
    /\ cfg' = config
    /\ plan' = steps
    /\ UNCHANGED <<pc, inputs, outputs, fee, err, ret, signed, sel, util>>

CallSendOrdinals ==
    /\ fn = "none"
    /\ \E config \in SendOrdinalsConfigs : Call("SendOrdinals", config, SendOrdinals(config))

CallCreateOrdinals ==
    /\ fn = "none"
    /\ \E config \in CreateOrdinalsConfigs : Call("CreateOrdinals", config, CreateOrdinals(config))

CallSendUtxos ==
    /\ fn = "none"
    /\ \E config \in SendUtxosConfigs : Call("SendUtxos", config, SendUtxos(config))

Running == fn # "none" /\ ret = "none" /\ pc <= Len(plan)

CallBurnOrdinals ==
    /\ fn = "none"
    /\ \E config \in BurnOrdinalsConfigs :
          \E order \in RangeOrders(config.Metadata) :
             Call("BurnOrdinals", config, BurnOrdinals(config, order))

CallDeployBsv21Token ==
    /\ fn = "none"
    /\ \E config \in DeployBsv21TokenConfigs :
          Call("DeployBsv21Token", config, DeployBsv21Token(config))

CallTransferOrdTokens ==
    /\ fn = "none"
    /\ \E config \in TransferBsv21TokenConfigs :
          Call("TransferOrdTokens", config, TransferOrdTokens(config))

CallCreateOrdListings ==
    /\ fn = "none"
    /\ \E config \in CreateOrdListingsConfigs :
          Call("CreateOrdListings", config, CreateOrdListings(config))

CallPurchaseOrdListing ==
    /\ fn = "none"
    /\ \E config \in PurchaseOrdListingConfigs :
          Call("PurchaseOrdListing", config, PurchaseOrdListing(config))

CallCancelOrdListings ==
    /\ fn = "none"
    /\ \E config \in CancelOrdListingsConfigs :
          Call("CancelOrdListings", config, CancelOrdListings(config))

CallPurchaseOrdTokenListing ==
    /\ fn = "none"
    /\ \E config \in PurchaseOrdTokenListingConfigs :
          Call("PurchaseOrdTokenListing", config, PurchaseOrdTokenListing(config))

CallCreateOrdTokenListings ==
    /\ fn = "none"
    /\ \E config \in CreateOrdTokenListingsConfigs :
          Call("CreateOrdTokenListings", config, CreateOrdTokenListings(config))

CallCancelOrdTokenListings ==
    /\ fn = "none"
    /\ \E config \in CancelOrdTokenListingsConfigs :
          Call("CancelOrdTokenListings", config, CancelOrdTokenListings(config))

CallCreateTxWithChange ==
    /\ fn = "none"
    /\ \E config \in CreateTxWithChangeConfigs :
          Call("CreateTxWithChange", config, CreateTxWithChange(config))

(* tx.AddInputFrom and the builder's handling of its error: the input is   *)
(* added, or the builder returns nil and the error wrapped in its message  *)
(* (tx.From of the legacy builder: the error itself).                      *)
AddInputFrom ==
    /\ Running /\ plan[pc].op = "in"
    /\ IF Rejected(plan[pc])
       THEN /\ err' = LET e == AddInputFromError(plan[pc].TxID, plan[pc].ScriptPubKey)
                       IN IF plan[pc].msg = ""
                          THEN [msg |-> e, cause |-> "", total |-> -1]
                          ELSE [msg |-> plan[pc].msg, cause |-> e, total |-> -1]
            /\ ret' = "nil"
            /\ UNCHANGED inputs
       ELSE /\ inputs' = Append(inputs, [kind |-> plan[pc].kind, sats |-> plan[pc].sats])
            /\ UNCHANGED <<err, ret>>
    /\ pc' = pc + 1
    /\ UNCHANGED <<fn, cfg, plan, outputs, fee, signed, sel, util>>

(* tx.AddOutput, of an output with a value or of the change output; the    *)
(* script is the asm of a data-carrier script, "" of any other.            *)
AddOutput ==
    /\ Running /\ plan[pc].op \in {"out", "change"}
    /\ outputs' = Append(outputs,
          [kind |-> plan[pc].kind, sats |-> plan[pc].sats, tokens |-> plan[pc].tokens,
           size |-> plan[pc].size, change |-> plan[pc].op = "change",
           script |-> plan[pc].msg])
    /\ pc' = pc + 1
    /\ UNCHANGED <<fn, cfg, plan, inputs, fee, err, ret, signed, sel, util>>

(* tx.Fee(feeModel, transaction.ChangeDistributionEqual) and the builder's *)
(* handling of its error.                                                  *)
Fee ==
    /\ Running /\ plan[pc].op = "fee"
    /\ LET f == ComputeFee(inputs, outputs, plan[pc].sats)
           satsIn == SumSats(inputs)
           satsOut == SumSats(NonChange(outputs))
           changeCount == Len(ChangeOuts(outputs))
       IN IF satsIn < satsOut + f
          THEN /\ err' = WrapFeeError(plan[pc], ErrInsufficientInputs)
               /\ ret' = "nil"
               /\ UNCHANGED <<outputs, fee, sel, util>>
          ELSE /\ outputs' = [i \in DOMAIN outputs |->
                     IF outputs[i].change
                     THEN [outputs[i] EXCEPT !.sats = (satsIn - satsOut - f) \div changeCount]
                     ELSE outputs[i]]
               /\ fee' = f
               /\ UNCHANGED <<err, ret, sel, util>>
    /\ pc' = pc + 1
    /\ UNCHANGED <<fn, cfg, plan, inputs, signed, sel, util>>

(* tx.Sign() and return tx, nil *)
Sign ==
    /\ Running /\ plan[pc].op = "sign"
    /\ signed' = signed + 1
    /\ ret' = "tx"
    /\ pc' = pc + 1
    /\ UNCHANGED <<fn, cfg, plan, inputs, outputs, fee, err, sel, util>>

(* return nil, fmt.Errorf(...) *)
ReturnError ==
    /\ Running /\ plan[pc].op = "err"
    /\ err' = [msg |-> plan[pc].msg, cause |-> "", total |-> -1]
    /\ ret' = "nil"
    /\ pc' = pc + 1
    /\ UNCHANGED <<fn, cfg, plan, inputs, outputs, fee, signed, sel, util>>

(* draftTx: the fee computed on a draft transaction. *)
DraftTx ==
    /\ Running /\ plan[pc].op = "draft"
    /\ fee' = plan[pc].sats
    /\ pc' = pc + 1
    /\ UNCHANGED <<fn, cfg, plan, inputs, outputs, err, ret, signed, sel, util>>

(* The adjustment followed by the auto-fee error, as if feeAdjusted were    *)
(* never set.                                                              *)
AdjustPayToThenFail ==
    /\ Running /\ plan[pc].op = "adjust"
    /\ cfg' = [cfg EXCEPT !.payToAddresses[plan[pc].arg].Satoshis = plan[pc].sats]
    /\ err' = [msg |-> "auto-fee could not be applied without removing an output", cause |-> "", total |-> -1]
    /\ ret' = "nil"
    /\ pc' = pc + 1
    /\ UNCHANGED <<fn, plan, inputs, outputs, fee, signed, sel, util>>

(* CreateTxWithChange: payToAddresses[i].Satoshis -= remainder, on the     *)
(* caller's record.                                                        *)
AdjustPayTo ==
    /\ Running /\ plan[pc].op = "adjust"
    /\ cfg' = [cfg EXCEPT !.payToAddresses[plan[pc].arg].Satoshis = plan[pc].sats]
    /\ pc' = pc + 1
    /\ UNCHANGED <<fn, plan, inputs, outputs, fee, err, ret, signed, sel, util>>

(* CreateTx without a private key: return tx, nil, unsigned. *)
ReturnUnsigned ==
    /\ Running /\ plan[pc].op = "return"
    /\ ret' = "tx"
    /\ pc' = pc + 1
    /\ UNCHANGED <<fn, cfg, plan, inputs, outputs, fee, err, signed, sel, util>>

(* a runtime panic: the call returns nothing *)
Panicked ==
    /\ Running /\ plan[pc].op = "panic"
    /\ err' = [msg |-> plan[pc].msg, cause |-> "", total |-> -1]
    /\ ret' = "panic"
    /\ pc' = pc + 1
    /\ UNCHANGED <<fn, cfg, plan, inputs, outputs, fee, signed, sel, util>>

Engine ==
    \/ AddInputFrom \/ AddOutput \/ Fee \/ Sign \/ ReturnError \/ Panicked
    \/ DraftTx \/ AdjustPayTo \/ ReturnUnsigned

Next ==
    \/ CallSendOrdinals
    \/ CallCreateOrdinals
    \/ CallSendUtxos
    \/ CallBurnOrdinals
    \/ CallDeployBsv21Token
    \/ CallTransferOrdTokens
    \/ CallCreateOrdListings
    \/ CallPurchaseOrdListing
    \/ CallCancelOrdListings
    \/ CallPurchaseOrdTokenListing
    \/ CallCreateOrdTokenListings
    \/ CallCancelOrdTokenListings
    \/ CallCreateTxWithChange
    \/ Engine

Spec == Init /\ [][Next]_vars

(* A caller selects token UTXOs: SelectTokenUtxos runs on arguments of the *)
(* caller's, fills the defaults into the caller's options and returns.     *)
InitSelect ==
    /\ fn = "none"
    /\ cfg = <<>>
    /\ plan = <<>>
    /\ pc = 1
    /\ inputs = <<>>
    /\ outputs = <<>>
    /\ fee = -1
    /\ err = NoErr
    /\ ret = "none"
    /\ signed = 0
    /\ sel \in SelectCalls
    /\ util = NoCall

(* Entry to the end of the selection loop: the defaults are written into   *)
(* the caller's options, sortedUtxos is made and filled from the caller's  *)
(* slice and ordered in place by the input strategy, and the loop selects  *)
(* from it into selectedUtxos.                                             *)
CallSelectTokenUtxos ==
    /\ IsNil(sel.loop)
    /\ LET copied == MakeCopy(sel.heap, sel.caller)
           sortedUtxos == copied.slice
       IN \E sorted \in Orders(ReadSlice(copied.heap, sortedUtxos),
                               DefaultedOptions(sel.options).InputStrategy) :
             LET ordered == WriteSlice(copied.heap, sortedUtxos, sorted)
                 loop == SelectLoop(ReadSlice(ordered, sortedUtxos), sel.requiredTokens,
                                    sel.decimals, 1, <<>>, Float64OfNat(0))
                 appended == AppendedSlice(ordered, loop.SelectedUtxos)
             IN sel' = [sel EXCEPT !.heap = appended.heap,
                                   !.selected = appended.slice,
                                   !.tokenUtxos = ReadSlice(appended.heap, sel.caller),
                                   !.options = IF IsNil(sel.options) THEN Nil
                                               ELSE <<DefaultedOptions(sel.options)>>,
                                   !.loop = <<loop>>]
    /\ UNCHANGED <<fn, cfg, plan, pc, inputs, outputs, fee, err, ret, signed, util>>

(* selectedUtxos is ordered in place by the output strategy and the result *)
(* is returned.                                                            *)
ReturnSelection ==
    /\ ~IsNil(sel.loop) /\ ~sel.called
    /\ \E selectedUtxos \in Orders(ReadSlice(sel.heap, sel.selected),
                                   DefaultedOptions(sel.options).OutputStrategy) :
          LET ordered == WriteSlice(sel.heap, sel.selected, selectedUtxos)
          IN sel' = [sel EXCEPT !.called = TRUE,
                                !.heap = ordered,
                                !.tokenUtxos = ReadSlice(ordered, sel.caller),
                                !.result = <<[SelectedUtxos |-> ReadSlice(ordered, sel.selected),
                                              TotalSelected |-> Deref(sel.loop).TotalSelected,
                                              IsEnough |-> Float64Geq(Deref(sel.loop).TotalSelected,
                                                                      sel.requiredTokens)]>>]
    /\ UNCHANGED <<fn, cfg, plan, pc, inputs, outputs, fee, err, ret, signed, util>>

NextSelect == CallSelectTokenUtxos \/ ReturnSelection

SpecSelect == InitSelect /\ [][NextSelect]_vars

(* createSplitTokenOutputs called on its own: it adds its outputs to the   *)
(* transaction and returns nil.                                            *)
CallCreateSplitTokenOutputs ==
    /\ fn = "none"
    /\ \E config \in SplitCalls :
          Call("createSplitTokenOutputs", config,
               createSplitTokenOutputs(config, config.remainingTokens)
               \o <<Step("nil", "", 0, 0, 0, "", -1)>>)

(* return nil: the helper ends without error *)
ReturnNil ==
    /\ Running /\ plan[pc].op = "nil"
    /\ ret' = "ok"
    /\ pc' = pc + 1
    /\ UNCHANGED <<fn, cfg, plan, inputs, outputs, fee, err, signed, sel, util>>

NextSplit == CallCreateSplitTokenOutputs \/ AddOutput \/ ReturnNil

SpecSplit == Init /\ [][NextSplit]_vars

-----------------------------------------------------------------------------
(* The utility functions of token_utils.go, each called once on arguments  *)
(* drawn from a small set.                                                 *)

(* result.Errors = append(result.Errors, msg) when the rule is violated *)
AppendIf(violated, msg) == IF violated THEN <<msg>> ELSE <<>>

(* ValidateSubTypeData: case "collection".  A map is a pointer to its set  *)
(* of keys: nil, or a set that may be empty.                               *)
CollectionErrors(data) ==
    AppendIf(data.Description = "", "description is required for collection subtype")
    \o AppendIf(data.Quantity <= 0, "quantity must be positive for collection subtype")
    \o (IF ~IsNil(data.Traits) /\ Cardinality(Deref(data.Traits)) > 0
        THEN AppendIf(Cardinality(Deref(data.Traits)) = 0,
                      "traits must not be empty if present")
        ELSE <<>>)

(* ValidateSubTypeData: case "collectionItem". *)
CollectionItemErrors(data) ==
    AppendIf(data.CollectionID = "", "collectionId is required for collectionItem subtype")
    \o AppendIf(data.MintNumber < 0,
                "mintNumber must be non-negative for collectionItem subtype")
    \o AppendIf(data.Rank < 0, "rank must be non-negative for collectionItem subtype")

ValidateSubTypeData(protocol, subType, data) ==
    IF IsNil(data)
    THEN [Valid |-> FALSE, Errors |-> <<"subtype data is nil">>]
    ELSE LET errors ==
                 (IF subType = "collection" THEN CollectionErrors(Deref(data))
                  ELSE IF subType = "collectionItem"
                  THEN CollectionItemErrors(Deref(data))
                  ELSE <<"unknown subtype: " \o subType>>)
                 \o AppendIf(protocol # "bsv-21", "unknown protocol: " \o protocol)
         IN [Valid |-> errors = <<>>, Errors |-> errors]

SubTypeDataSet ==
    [CollectionID : {"", "c"}, Description : {"", "d"}, Quantity : {0, 1},
     MintNumber : {-1, 0}, Rank : {-1, 0},
     Traits : Pointers({{}, {"trait1"}})]

ValidateCalls ==
    [protocol : {"bsv-21", "bsv-20"},
     subType : {"collection", "collectionItem", "unknownSubtype"},
     data : Pointers(SubTypeDataSet)]

CallValidateSubTypeData ==
    /\ util.name = "none"
    /\ \E args \in ValidateCalls :
          util' = [name |-> "ValidateSubTypeData", args |-> args,
                   result |-> <<ValidateSubTypeData(args.protocol, args.subType, args.data)>>]
    /\ UNCHANGED <<fn, cfg, plan, pc, inputs, outputs, fee, err, ret, signed, sel>>


(* FromToken (token_utils.go).  A float64 argument is held as              *)
(* +-m * 2^e with a small odd-or-zero mantissa m; a uint64 result as its   *)
(* 64 bits, most significant first.  For these arguments and the decimals  *)
(* of the domain amount * 10^decimals has fewer than 53 significant bits,  *)
(* so the float64 product is exact, and the float64 quotient               *)
(* 2^64 / 10^decimals lies strictly between two of them, so that           *)
(* amount > maxSafeValue exactly when amount * 10^decimals > 2^64.         *)

Uint64Bits == 64
MantissaBits == 10

(* m * 2^e > 2^k, for 0 <= m < 2^MantissaBits *)
GtPow2(m, e, k) ==
    IF e >= k THEN (e > k /\ m >= 1) \/ (e = k /\ m > 1)
    ELSE k - e <= MantissaBits /\ m > Pow(2, k - e)

(* m * 2^e >= 2^k, for 0 <= m < 2^MantissaBits *)
GeqPow2(m, e, k) ==
    IF e >= k THEN m >= 1
    ELSE k - e <= MantissaBits /\ m >= Pow(2, k - e)

(* math.Round of m * 2^e >= 0, halves away from zero: its mantissa and     *)
(* exponent.                                                               *)
RoundDyadic(m, e) ==
    IF e >= 0 THEN [m |-> m, e |-> e]
    ELSE [m |-> (m + Pow(2, -e - 1)) \div Pow(2, -e), e |-> 0]

(* The uint64 m * 2^e < 2^64 with e >= 0. *)
Uint64Of(m, e) ==
    LET w == IF Uint64Bits - e < MantissaBits THEN Uint64Bits - e ELSE MantissaBits
    IN Zeros(Uint64Bits - e - w) \o NatBits(m, w) \o Zeros(e)

(* uint64(x) of a float64 x >= 2^64: the Go specification leaves the       *)
(* result to the implementation.  amd64 yields 2^63, arm64 saturates at    *)
(* 2^64 - 1, and a wrapping conversion yields x mod 2^64.                  *)
Uint64OutOfRange ==
    {<<1>> \o Zeros(Uint64Bits - 1), [i \in 1..Uint64Bits |-> 1], Zeros(Uint64Bits)}

Panics(msg) == [panic |-> msg, value |-> <<>>]
Returns(value) == [panic |-> "", value |-> value]

(* The outcomes of FromToken(amount, decimals). *)
FromToken(amount, decimals) ==
    LET M == amount.m * Pow(10, decimals)
        rounded == RoundDyadic(M, amount.e)
    IN IF amount.neg /\ amount.m > 0
       THEN {Panics("FromToken cannot handle negative values directly")}
       ELSE IF GtPow2(M, amount.e, Uint64Bits)
       THEN {Panics("Value too large")}
       ELSE IF GeqPow2(rounded.m, rounded.e, Uint64Bits)
       THEN {Returns(v) : v \in Uint64OutOfRange}
       ELSE {Returns(Uint64Of(rounded.m, rounded.e))}

FromTokenCalls ==
    [amount : [neg : BOOLEAN, m : {0, 1, 3, 5}, e : {-1, 0, 1, 60, 62, 63, 64, 65}],
     decimals : {0, 1, 2}]

CallFromToken ==
    /\ util.name = "none"
    /\ \E args \in FromTokenCalls :
          \E result \in FromToken(args.amount, args.decimals) :
              util' = [name |-> "FromToken", args |-> args, result |-> <<result>>]
    /\ UNCHANGED <<fn, cfg, plan, pc, inputs, outputs, fee, err, ret, signed, sel>>


NextUtil == CallValidateSubTypeData \/ CallFromToken

SpecUtil == Init /\ [][NextUtil]_vars

-----------------------------------------------------------------------------
(* TransferOrdToken and its helpers (tokens.go).  The token amounts are    *)
(* uint64 values held as their 64 bits, most significant first, so that    *)
(* totalTokens - distributedTokens wraps as it does in the code.           *)

(* uint64(n) of a natural n < 2^16 *)
Uint64OfNat(n) == Zeros(Uint64Bits - 16) \o NatBits(n, 16)

(* The natural a uint64 below 2^16 holds. *)
NatOfUint64(x) == 256 * ByteAt(x, Uint64Bits - 15) + ByteAt(x, Uint64Bits - 7)

(* x - y in uint64: x plus the two's complement of y, the carry dropped *)
Uint64Sub(x, y) == AddBits(x, IncBits([i \in DOMAIN y |-> 1 - y[i]], Uint64Bits))

(* x - y of unsigned integers that cannot wrap *)
UnboundedSub(x, y) ==
    IF Float64Geq(x, y) THEN Uint64Sub(x, y) ELSE Zeros(Uint64Bits)

(* x / n in uint64, n a natural > 0 *)
Uint64Div(x, n) == DivBits(x, n, 1, 0, <<>>).q

(* x < y in uint64 *)
Uint64Lt(x, y) == ~Float64Geq(x, y)

Uint64Zero == Zeros(Uint64Bits)

RECURSIVE TokenSplitLoop(_, _, _, _)
(* tokens.go createSplitTokenOutputs: the loop "for i := 0; i < outputs && *)
(* tokensLeft > 0; i++", from iteration i on.                              *)
TokenSplitLoop(i, outs, tokensPerSplit, tokensLeft) ==
    IF ~(i < outs /\ tokensLeft # Uint64Zero) THEN <<>>
    ELSE LET outputAmount ==
                 IF i = outs - 1 \/ Uint64Lt(tokensLeft, tokensPerSplit)
                 THEN tokensLeft ELSE tokensPerSplit
         IN TokenOutput(outputAmount, FALSE)
            \o TokenSplitLoop(i + 1, outs, tokensPerSplit, Uint64Sub(tokensLeft, outputAmount))

(* tokens.go createSplitTokenOutputs.  The outputs are reduced only when   *)
(* tokensPerSplit is below the threshold, a small number, so that          *)
(* remainingTokens / threshold is small too.                               *)
TokenSplitOutputs(config, remainingTokens) ==
    LET outputs0 == Deref(config.SplitConfig).Outputs
        threshold == IF IsNil(Deref(config.SplitConfig).Threshold) THEN 0
                     ELSE Uint64OfFloat(Deref(Deref(config.SplitConfig).Threshold))
        tokensPerSplit0 == Uint64Div(remainingTokens, outputs0)
        reduce == threshold > 0 /\ Uint64Lt(tokensPerSplit0, Uint64OfNat(threshold))
        byThreshold == NatOfUint64(Uint64Div(remainingTokens, threshold))
        outs == IF ~reduce THEN outputs0
                ELSE IF byThreshold = 0 THEN 1 ELSE byThreshold
        tokensPerSplit == IF reduce THEN Uint64Div(remainingTokens, outs) ELSE tokensPerSplit0
    IN IF config.OrdPk = "nil" THEN Panic("nil pointer dereference")
       ELSE TokenSplitLoop(0, outs, tokensPerSplit, remainingTokens)

(* tokens.go createSingleTokenChangeOutput *)
TokenSingleChangeOutput(config, remainingTokens) ==
    IF config.OrdPk = "nil" THEN Panic("nil pointer dereference")
    ELSE TokenOutput(remainingTokens, FALSE)

(* TransferOrdToken: remainingTokens := totalTokens - distributedTokens *)
RemainingTokens(config) ==
    Uint64Sub(Uint64OfNat(TotalTokens(config)), Uint64OfNat(DistributedTokens(config)))

(* TransferOrdToken: the handling of the tokens left after distribution. *)
TokenChangeOutputs(config) ==
    LET remainingTokens == RemainingTokens(config)
        splitOrSingle ==
            IF ~IsNil(config.SplitConfig) /\ Deref(config.SplitConfig).Outputs > 1
            THEN TokenSplitOutputs(config, remainingTokens)
            ELSE TokenSingleChangeOutput(config, remainingTokens)
    IN IF ~(remainingTokens # Uint64Zero /\ ~config.Burn) THEN <<>>
       ELSE IF config.TokenInputMode = "needed"
               /\ DistributedTokens(config) < TotalTokens(config)
       THEN splitOrSingle
       ELSE IF config.TokenInputMode \in {"all", ""} THEN splitOrSingle
       ELSE <<>>

TransferOrdToken(config) ==
    Cut((IF config.Protocol # "bsv-21" THEN <<Fail("unsupported token protocol")>> ELSE <<>>)
        \o PaymentInputs(config.Utxos, config.PaymentPk, "failed to create payment unlocker",
                         "failed to add payment input")
        \o Flatten([i \in DOMAIN config.InputTokens |->
                      InputFrom("token", config.InputTokens[i], config.OrdPk,
                                "failed to create token unlocker",
                                "failed to add token input")])
        \o Flatten([i \in DOMAIN config.Distributions |->
                      TokenOutput(Uint64OfNat(Uint64OfFloat(config.Distributions[i].Tokens)),
                                  FALSE)])
        \o TokenChangeOutputs(config)
        \o ChangeIfAddress(config)
        \o FeeStep(FeeRateOf(config), "", -1)
        \o SignStep)

TransferOrdTokenConfigs ==
    [Protocol : {"bsv-21", "bsv-20"}, TokenID : {"id"},
     Utxos : SeqsUpTo([Satoshis : {100}, TxID : TxIDs, ScriptPubKey : Scripts], 1),
     InputTokens : {<<>>} \cup
                   {<<[Satoshis |-> 1, TokenID |-> "id", Amount |-> 5,
                       TxID |-> t, ScriptPubKey |-> ValidScript]>> : t \in TxIDs} \cup
                   {<<[Satoshis |-> 1, TokenID |-> "id", Amount |-> 5,
                       TxID |-> ValidTxID, ScriptPubKey |-> ValidScript],
                      [Satoshis |-> 1, TokenID |-> "id", Amount |-> 2,
                       TxID |-> ValidTxID, ScriptPubKey |-> ValidScript]>>},
     Distributions : SeqsUpTo([Tokens : {Float(1, 2), Float(2, 1), Float(8, 1)},
                               OmitMetadata : {FALSE}], MaxPayments),
     PaymentPk : {"pk"}, OrdPk : Keys, Burn : BOOLEAN,
     ChangeAddress : {"addr"}, SatsPerKb : {0},
     TokenInputMode : {"", "all", "needed"},
     SplitConfig : Pointers([Outputs : {3}, Threshold : Pointers({Float(2, 1)}),
                             OmitMetadata : {FALSE}])]

CallTransferOrdToken ==
    /\ fn = "none"
    /\ \E config \in TransferOrdTokenConfigs :
          Call("TransferOrdToken", config, TransferOrdToken(config))

NextTransferToken ==
    \/ CallTransferOrdToken
    \/ AddInputFrom \/ AddOutput \/ Fee \/ Sign \/ ReturnError \/ Panicked

SpecTransferToken == Init /\ [][NextTransferToken]_vars


-----------------------------------------------------------------------------
(* Properties of the builders.                                             *)

Builders ==
    {"CreateOrdinals", "SendOrdinals", "SendUtxos", "BurnOrdinals", "DeployBsv21Token",
     "TransferOrdTokens", "CreateOrdListings", "PurchaseOrdListing", "CancelOrdListings",
     "CreateOrdTokenListings", "PurchaseOrdTokenListing", "CancelOrdTokenListings"}

AssetKinds == {"ordinal", "token", "listing"}

(* The fee the returned transaction pays: what its inputs hold beyond its  *)
(* outputs.                                                                *)
DeclaredFee == SumSats(inputs) - SumSats(outputs)

(* The fee the fee model requires for the transaction as it stands. *)
RequiredFee ==
    IF fn = "CreateTxWithChange"
    THEN CalculateFeeForTx(inputs, outputs, cfg.privateKey # "nil",
                           cfg.standardRate, cfg.dataRate)
    ELSE ComputeFee(inputs, outputs, FeeRateOf(cfg))

(* C1: every transaction a builder or the legacy CreateTxWithChange        *)
(* returns pays a fee (inputs minus outputs) of at least the fee the fee   *)
(* model requires for its size at the configured rate, and none is         *)
(* returned whose inputs do not cover the non-change outputs plus that fee.*)
C1_FeeSufficiency ==
    ret = "tx" =>
        /\ DeclaredFee >= RequiredFee
        /\ SumSats(inputs) >= SumSats(NonChange(outputs)) + RequiredFee

(* C2: whenever a builder fails because the inputs cannot cover the        *)
(* non-change outputs plus the fee, the error carries the total satoshis   *)
(* of the inputs.                                                          *)
C2_InsufficientFundsCarriesTotal ==
    (fn \in Builders /\ ret = "nil" /\ err.cause = ErrInsufficientInputs)
        => err.total >= 0

(* C3: a builder that spends an ordinal, token or listing UTXO never signs *)
(* a transaction in which such an input is worth other than 1 satoshi.     *)
C3_AssetInputsOneSat ==
    (fn \in Builders /\ signed > 0) =>
        \A i \in DOMAIN inputs : inputs[i].kind \in AssetKinds => inputs[i].sats = 1

BurnsNonOneSat ==
    /\ fn = "BurnOrdinals"
    /\ \E i \in DOMAIN cfg.Ordinals : cfg.Ordinals[i].Satoshis # 1

ExactlyOneSatMsg == "1Sat Ordinal UTXOs must have exactly 1 satoshi"

(* BurnOrdinals: the creation of an unlocker or the adding of an input     *)
(* fails before the value check reaches the first ordinal that is not 1    *)
(* satoshi.                                                                *)
BurnInputFailsFirst ==
    \/ /\ Len(cfg.PaymentUtxos) > 0
       /\ \/ cfg.PaymentPk = "nil"
          \/ \E i \in DOMAIN cfg.PaymentUtxos :
                AddInputFromError(cfg.PaymentUtxos[i].TxID,
                                  cfg.PaymentUtxos[i].ScriptPubKey) # ""
    \/ \E i \in DOMAIN cfg.Ordinals :
          /\ \A j \in 1..i : cfg.Ordinals[j].Satoshis = 1
          /\ \/ cfg.OrdPk = "nil"
             \/ AddInputFromError(cfg.Ordinals[i].TxID, cfg.Ordinals[i].ScriptPubKey) # ""

(* C4, as stated: whenever an ordinal to burn is not worth 1 satoshi,      *)
(* BurnOrdinals returns a nil transaction and an error mentioning          *)
(* "exactly 1 satoshi", before any output is added or fee computed.        *)
C4_BurnRejectsNonOneSat_Original ==
    BurnsNonOneSat =>
        /\ outputs = <<>> /\ fee = -1 /\ ret # "tx"
        /\ ret = "nil" => err.msg = ExactlyOneSatMsg

(* C4, amended: whenever an ordinal to burn is not worth 1 satoshi,        *)
(* BurnOrdinals returns a nil transaction and an error before any output   *)
(* is added or fee computed; the error mentions "exactly 1 satoshi" unless *)
(* an input ahead of the bad ordinal failed first (a payment UTXO with a   *)
(* nil PaymentPk or a malformed outpoint, a 1 satoshi ordinal with a nil   *)
(* OrdPk or a malformed outpoint), in which case it is the error of that   *)
(* input.                                                                  *)
C4_BurnRejectsNonOneSat ==
    BurnsNonOneSat =>
        /\ outputs = <<>> /\ fee = -1 /\ signed = 0 /\ ret # "tx"
        /\ pc > Len(plan) => ret = "nil"
        /\ ret = "nil" =>
              IF BurnInputFailsFirst
              THEN err.msg \in {"failed to create payment unlocker",
                                "failed to add payment input",
                                "failed to create ordinal unlocker",
                                "failed to add ordinal input"}
              ELSE err.msg = ExactlyOneSatMsg

(* C4 witness: a burn of a 2 satoshi ordinal rejected with the message,    *)
(* after the payment input was added.                                      *)
C4_Witness ==
    /\ BurnsNonOneSat /\ ret = "nil" /\ err.msg = ExactlyOneSatMsg
    /\ Len(inputs) > 0

(* C5: in every transaction a builder returns, every ordinal, token or     *)
(* listing bearing output is worth exactly 1 satoshi.                      *)
C5_AssetOutputsOneSat ==
    ret = "tx" =>
        \A i \in DOMAIN outputs : outputs[i].kind \in AssetKinds => outputs[i].sats = 1

(* C5 witness: a returned token transfer with a distribution output and a  *)
(* token change output.                                                    *)
C5_Witness ==
    /\ ret = "tx" /\ fn = "TransferOrdTokens"
    /\ Len(SelectSeq(outputs, LAMBDA o : o.kind = "token")) >= 2

ChangeOrKeyMsgs ==
    {"either changeAddress or paymentPk is required",
     "ordPk or changeAddress required for token change"}

(* C6: in every builder the transaction has a change-flagged output        *)
(* exactly when ChangeAddress is non-empty, never more than one; a call    *)
(* with an empty ChangeAddress and a payment key is not rejected for its   *)
(* change address and proceeds without change output; only the absence of  *)
(* both is rejected.                                                       *)
C6_ChangeIffAddress ==
    fn \in Builders =>
        /\ Len(ChangeOuts(outputs)) <= 1
        /\ ret = "tx" => (Len(ChangeOuts(outputs)) = 1 <=> cfg.ChangeAddress # "")
        /\ err.msg \in ChangeOrKeyMsgs =>
              cfg.ChangeAddress = "" /\ cfg.PaymentPk = "nil"
        /\ (cfg.ChangeAddress = "" /\ cfg.PaymentPk # "nil") =>
              err.msg # "failed to create change address"

CountMismatch ==
    fn = "SendOrdinals" /\ Len(cfg.Destinations) # Len(cfg.Ordinals)

UniformSendMsg == "number of destinations must match number of ordinals being sent"

(* C7: with EnforceUniformSend enabled and a destination count different   *)
(* from the ordinal count, SendOrdinals returns the "number of             *)
(* destinations" error and a nil transaction before any input is added;    *)
(* with it disabled the mismatch is not an error.                          *)
C7_UniformSend ==
    /\ (CountMismatch /\ cfg.EnforceUniformSend = "true") =>
          /\ inputs = <<>> /\ outputs = <<>> /\ ret # "tx"
          /\ pc > 1 => (ret = "nil" /\ err.msg = UniformSendMsg)
    /\ (CountMismatch /\ cfg.EnforceUniformSend = "false") => err.msg # UniformSendMsg

(* C7 witness: a mismatched send rejected with the message. *)
C7_Witness ==
    /\ CountMismatch /\ cfg.EnforceUniformSend = "true"
    /\ ret = "nil" /\ err.msg = UniformSendMsg /\ inputs = <<>>

(* C8: a SendOrdinalsConfig that leaves EnforceUniformSend unset and whose *)
(* destination count differs from its ordinal count is rejected.           *)
C8_UniformSendDefault ==
    (CountMismatch /\ cfg.EnforceUniformSend = "unset") =>
        /\ inputs = <<>> /\ ret # "tx"
        /\ pc > 1 => (ret = "nil" /\ err.msg = UniformSendMsg)

ValidationMsgs ==
    ChangeOrKeyMsgs \cup
    {UniformSendMsg,
     "inscription is required for all destinations",
     "token symbol is required",
     "initial distribution is required",
     "initial distribution amount must be greater than zero",
     "invalid protocol",
     "input tokens do not match the provided tokenID",
     "not enough tokens to satisfy the transfer amount",
     "private key is required to sign the transaction",
     "listing UTXO is required",
     "destination address is required",
     "payment private key is required to sign the transaction",
     "token private key is required to sign the transaction",
     "at least one listing is required",
     "at least one listing UTXO is required",
     "token UTXO is required for listing",
     "token owner address is required for listing",
     "payment address is required for listing",
     "token protocol is required for listing UTXO",
     "token ID is required for listing UTXO"}

(* C9: in every builder every validation error is returned before the     *)
(* first input is added to the transaction.                                *)
C9_ValidationBeforeInputs ==
    (fn \in Builders /\ ret = "nil" /\ err.msg \in ValidationMsgs) => inputs = <<>>

(* The sum of the amounts of the list, in display format, as a real        *)
(* number, is at least the float64 R: sum * 2^FracBits >= R * 10^decimals  *)
(* as integers.                                                            *)
RECURSIVE SumAmounts(_)
SumAmounts(utxos) ==
    IF utxos = <<>> THEN 0 ELSE Head(utxos).Amount + SumAmounts(Tail(utxos))

ExactSumGeq(utxos, decimals, R) ==
    Float64Geq(Zeros(7) \o Float64OfNat(SumAmounts(utxos)),
               MulBits(R, Pow(10, decimals), Len(R), 0))

(* The float64 sum of the display amounts, added in list order. *)
RECURSIVE ListOrderSum(_, _, _)
ListOrderSum(utxos, decimals, total) ==
    IF utxos = <<>> THEN total
    ELSE ListOrderSum(Tail(utxos), decimals,
                      Float64Add(total, ToToken(Head(utxos).Amount, decimals)))

(* C10: for every token list, every input and output strategy and every    *)
(* required amount R > 0 with sum(amounts) >= R (the sum taken both as a   *)
(* real number and as the float64 sum in list order), SelectTokenUtxos     *)
(* returns IsEnough = true and a TotalSelected >= R.                       *)
C10_SelectionSufficiency ==
    (/\ sel.called
     /\ ~Float64Geq(Float64OfNat(0), sel.requiredTokens)
     /\ ExactSumGeq(sel.tokenUtxos, sel.decimals, sel.requiredTokens)
     /\ Float64Geq(ListOrderSum(sel.tokenUtxos, sel.decimals, Float64OfNat(0)),
                   sel.requiredTokens))
    => /\ Deref(sel.result).IsEnough
       /\ Float64Geq(Deref(sel.result).TotalSelected, sel.requiredTokens)

(* The float64 nearest the sum of the amounts of the list in display       *)
(* format: the raw amounts summed as integers and converted once.          *)
RoundedSum(utxos, decimals) == ToToken(SumAmounts(utxos), decimals)

(* The list holds the same UTXOs as the other, each as many times. *)
SameUtxos(s, t) ==
    /\ Len(s) = Len(t)
    /\ \A u \in {s[i] : i \in DOMAIN s} :
          Cardinality({i \in DOMAIN s : s[i] = u}) = Cardinality({i \in DOMAIN t : t[i] = u})

(* R <= 0, or the sum of the amounts is below R both as a real number and  *)
(* as the float64 sum in list order.                                       *)
NothingToReach ==
    \/ Float64Geq(Float64OfNat(0), sel.requiredTokens)
    \/ /\ ~ExactSumGeq(sel.tokenUtxos, sel.decimals, sel.requiredTokens)
       /\ ~Float64Geq(ListOrderSum(sel.tokenUtxos, sel.decimals, Float64OfNat(0)),
                      sel.requiredTokens)

(* C11: whenever R <= 0 or sum(amounts) < R, SelectTokenUtxos selects      *)
(* every item of the input list and TotalSelected equals the full sum      *)
(* (the real sum rounded to float64, or the float64 sum in list order);    *)
(* IsEnough is false                                                       *)
(* when the sum is below a positive R and true when R <= 0.                *)
C11_SelectionDrainsAll ==
    (sel.called /\ NothingToReach) =>
        /\ SameUtxos(Deref(sel.result).SelectedUtxos, sel.tokenUtxos)
        /\ \/ Deref(sel.result).TotalSelected = RoundedSum(sel.tokenUtxos, sel.decimals)
           \/ Deref(sel.result).TotalSelected
                 = ListOrderSum(sel.tokenUtxos, sel.decimals, Float64OfNat(0))
        /\ Deref(sel.result).IsEnough = Float64Geq(Float64OfNat(0), sel.requiredTokens)

(* The amounts of the list never decrease, or never increase. *)
Ascending(s) == \A i \in 1..(Len(s) - 1) : s[i].Amount <= s[i + 1].Amount
Descending(s) == \A i \in 1..(Len(s) - 1) : s[i].Amount >= s[i + 1].Amount

(* C12: whatever the output strategy, the returned UTXOs are the ones the  *)
(* selection loop selected, each once, TotalSelected is the loop's total   *)
(* and IsEnough compares that total with R; the output strategy only       *)
(* orders them: ascending by amount under smallest-first, descending       *)
(* under largest-first, in selection order under retain-order.             *)
C12_OutputStrategyOnlyPermutes ==
    sel.called =>
        LET selection == Deref(sel.loop)
            result == Deref(sel.result)
            strategy == Deref(sel.options).OutputStrategy
        IN /\ SameUtxos(result.SelectedUtxos, selection.SelectedUtxos)
           /\ result.TotalSelected = selection.TotalSelected
           /\ result.IsEnough = Float64Geq(selection.TotalSelected, sel.requiredTokens)
           /\ ~IsNil(sel.options) =>
                 /\ strategy = "smallest" => Ascending(result.SelectedUtxos)
                 /\ strategy = "largest" => Descending(result.SelectedUtxos)
                 /\ strategy = "retain" => result.SelectedUtxos = selection.SelectedUtxos
           /\ IsNil(sel.options) => result.SelectedUtxos = selection.SelectedUtxos

(* C12 witness: a selection of several UTXOs in ascending order returned   *)
(* in descending order under largest-first.                                *)
C12_Witness ==
    /\ sel.called /\ ~IsNil(sel.options)
    /\ Deref(sel.options).OutputStrategy = "largest"
    /\ Len(Deref(sel.loop).SelectedUtxos) >= 2
    /\ ~Descending(Deref(sel.loop).SelectedUtxos)
    /\ Descending(Deref(sel.result).SelectedUtxos)

(* What the caller reads through its slice stays as it was. *)
CallerListKept ==
    /\ sel'.caller = sel.caller
    /\ ReadSlice(sel'.heap, sel'.caller) = ReadSlice(sel.heap, sel.caller)
    /\ sel'.tokenUtxos = sel.tokenUtxos

(* C13: SelectTokenUtxos leaves the caller's token list as it was, in      *)
(* length, order and contents, at every step of the call: every reordering *)
(* is done on a backing array of its own.                                  *)
C13_CallerListUnchanged == [][CallerListKept]_vars

(* C13 witness: the call returned a reordered selection and the caller's   *)
(* list is not in that order.                                              *)
C13_Witness ==
    /\ sel.called /\ Len(sel.tokenUtxos) >= 2
    /\ Len(sel.heap) = 3 /\ sel.caller.array = 1 /\ sel.selected.array = 3
    /\ sel.heap[2] # sel.heap[1]
    /\ Len(Deref(sel.loop).SelectedUtxos) = Len(sel.tokenUtxos)
    /\ Deref(sel.loop).SelectedUtxos # sel.tokenUtxos
    /\ Deref(sel.result).SelectedUtxos # sel.tokenUtxos
    /\ Deref(sel.result).SelectedUtxos # Deref(sel.loop).SelectedUtxos
    /\ ReadSlice(sel.heap, sel.caller) = sel.tokenUtxos

RECURSIVE SumTokens(_)
SumTokens(outs) == IF outs = <<>> THEN 0 ELSE Head(outs).tokens + SumTokens(Tail(outs))

SplitReturned == fn = "createSplitTokenOutputs" /\ ret = "ok"

(* C14: for every remaining amount > 0, every output count k >= 1 and      *)
(* every threshold, the token amounts of the outputs createSplitToken-     *)
(* Outputs emits sum to exactly the remaining amount.                      *)
C14_SplitConservation ==
    SplitReturned => SumTokens(outputs) = cfg.remainingTokens

(* C14 witness: a split into several outputs whose last output absorbs a   *)
(* remainder.                                                              *)
C14_Witness ==
    /\ SplitReturned /\ Len(outputs) >= 3
    /\ outputs[Len(outputs)].tokens > outputs[1].tokens

(* The threshold t of the call, a float64 held as a fraction. *)
SplitThreshold == Deref(Deref(cfg.SplitConfig).Threshold)

(* A threshold t > 0 is set and remaining / k < t. *)
BelowSplitThreshold ==
    /\ SplitReturned
    /\ ~IsNil(Deref(cfg.SplitConfig).Threshold) /\ SplitThreshold.num > 0
    /\ (cfg.remainingTokens \div Deref(cfg.SplitConfig).Outputs) * SplitThreshold.den
          < SplitThreshold.num

(* C15: with a threshold t > 0 and remaining / k < t the number of split   *)
(* outputs is max(1, remaining / t); every output then carries at least t  *)
(* tokens when remaining >= t, and when remaining < t the single output    *)
(* carries the whole remainder.  t is any float64 the config holds, whole  *)
(* or fractional.                                                          *)
C15_SplitThreshold ==
    BelowSplitThreshold
    => LET n == (cfg.remainingTokens * SplitThreshold.den) \div SplitThreshold.num
           reaches == cfg.remainingTokens * SplitThreshold.den >= SplitThreshold.num
       IN /\ Len(outputs) = IF n >= 1 THEN n ELSE 1
          /\ reaches => \A i \in DOMAIN outputs :
                            outputs[i].tokens * SplitThreshold.den >= SplitThreshold.num
          /\ ~reaches => Len(outputs) = 1 /\ outputs[1].tokens = cfg.remainingTokens

(* The threshold is a whole amount. *)
WholeThreshold == SplitThreshold.num % SplitThreshold.den = 0

(* With a whole threshold the statement of C15 holds: uint64(t) = t. *)
WholeThresholdSplit == (BelowSplitThreshold /\ WholeThreshold) => C15_SplitThreshold

(* A split under a fractional threshold that emits an output below it. *)
FractionalThresholdSplit ==
    /\ BelowSplitThreshold /\ ~WholeThreshold
    /\ cfg.remainingTokens * SplitThreshold.den >= SplitThreshold.num
    /\ \E i \in DOMAIN outputs : outputs[i].tokens * SplitThreshold.den < SplitThreshold.num

(* The sum of the amounts the distributions of the config ask for, in      *)
(* halves of a token (the amounts of the configs are multiples of 1/2).    *)
RECURSIVE SumHalves(_)
SumHalves(dists) ==
    IF dists = <<>> THEN 0
    ELSE (2 * Head(dists).Tokens.num) \div Head(dists).Tokens.den + SumHalves(Tail(dists))

OverDistribution ==
    /\ fn = "TransferOrdTokens"
    /\ SumHalves(cfg.Distributions) > 2 * TotalTokens(cfg)

(* C16: TransferOrdTokens returns an error and a nil transaction whenever  *)
(* the sum of the distribution amounts exceeds the sum of the input token  *)
(* amounts.                                                                *)
C16_OverDistributionRejected ==
    OverDistribution => /\ ret \in {"none", "nil"}
                        /\ pc > Len(plan) => ret = "nil"

TokenOutputs == SelectSeq(outputs, LAMBDA o : o.kind = "token")

TransferReturned == fn = "TransferOrdTokens" /\ ret = "tx"

(* C17: in every successful TransferOrdTokens the token amounts of the     *)
(* token outputs (distributions and token change) sum to the total of the  *)
(* token inputs when Burn is false, for every TokenInputMode and           *)
(* SplitConfig; when Burn is true there are only the distribution outputs  *)
(* and they sum to the distributed amount.                                 *)
C17_TokenConservation ==
    TransferReturned =>
        IF cfg.Burn
        THEN /\ Len(TokenOutputs) = Len(cfg.Distributions)
             /\ SumTokens(TokenOutputs) = DistributedTokens(cfg)
        ELSE SumTokens(TokenOutputs) = TotalTokens(cfg)

(* C18: TransferOrdTokens with TokenInputMode "needed", Burn false, tokens *)
(* remaining and SplitConfig.Outputs = n > 1 without a threshold splits    *)
(* the token change into n token change outputs.                           *)
C18_NeededModeSplits ==
    (/\ TransferReturned /\ cfg.TokenInputMode = "needed" /\ ~cfg.Burn
     /\ ~IsNil(cfg.SplitConfig)
     /\ Deref(cfg.SplitConfig).Outputs > 1
     /\ IsNil(Deref(cfg.SplitConfig).Threshold)
     /\ TotalTokens(cfg) - DistributedTokens(cfg) >= Deref(cfg.SplitConfig).Outputs)
    => Len(TokenOutputs) = Len(cfg.Distributions) + Deref(cfg.SplitConfig).Outputs


PurchaseReturned ==
    fn \in {"PurchaseOrdListing", "PurchaseOrdTokenListing"} /\ ret = "tx"

(* C19: every successful purchase (PurchaseOrdListing and                  *)
(* PurchaseOrdTokenListing) spends the listing UTXO and holds both a       *)
(* 1-satoshi asset output to the buyer and a payment output to the seller. *)
(* The purchase configs carry no price, so of the payment output only its  *)
(* presence is stated.                                                     *)
C19_PurchasePaysSeller ==
    PurchaseReturned =>
        /\ \E i \in DOMAIN inputs : inputs[i].kind = "listing"
        /\ \E i \in DOMAIN outputs :
              outputs[i].kind \in {"ordinal", "token"} /\ outputs[i].sats = 1
        /\ \E i \in DOMAIN outputs : outputs[i].kind = "payment" /\ ~outputs[i].change


(* The steps of the running call that wrote through a pointer the caller   *)
(* passed in.  AdjustPayTo is the only step of any builder that does.      *)
CallerRecordsWritten == {i \in 1..(pc - 1) : i <= Len(plan) /\ plan[i].op = "adjust"}

ErrorReturned == fn # "none" /\ ret = "nil"

(* C20: whenever a builder returns an error the returned transaction is    *)
(* nil and nothing the caller passed in has been modified, the pay-to      *)
(* amounts handed to the legacy CreateTxWithChange included.               *)
C20_ErrorLeavesCallerRecords ==
    ErrorReturned =>
        /\ err.msg # ""
        /\ CallerRecordsWritten = {}

(* C20: CreateTxWithChange entered the fee-adjusting branch and returned   *)
(* its error without having adjusted an amount.                            *)
C20_Witness ==
    /\ fn = "CreateTxWithChange" /\ ErrorReturned
    /\ err.msg = "auto-fee could not be applied without removing an output"
    /\ Len(cfg.payToAddresses) > 0


SendReturned == fn = "SendOrdinals" /\ ret = "tx"

(* The inputs a SendOrdinals config asks for: the ordinals in config order *)
(* and then the payment UTXOs in config order.                             *)
SendExpectedInputs ==
    [i \in DOMAIN cfg.Ordinals |-> [kind |-> "ordinal", sats |-> cfg.Ordinals[i].Satoshis]]
    \o [i \in DOMAIN cfg.PaymentUtxos |-> [kind |-> "payment", sats |-> cfg.PaymentUtxos[i].Satoshis]]

(* C21: a successful SendOrdinals transaction has exactly                  *)
(* |Ordinals| + |PaymentUtxos| inputs, the ordinals first in config order  *)
(* and then the payment UTXOs in config order; its outputs are, in order,  *)
(* one 1-satoshi output per destination, one output per additional payment *)
(* with the configured amount, then the change output when a change        *)
(* address was given.                                                      *)
C21_SendOrdinalsLayout ==
    SendReturned =>
        LET nd == Len(cfg.Destinations)
            np == Len(cfg.AdditionalPayments)
            nc == IF cfg.ChangeAddress # "" THEN 1 ELSE 0
        IN /\ inputs = SendExpectedInputs
           /\ Len(inputs) = Len(cfg.Ordinals) + Len(cfg.PaymentUtxos)
           /\ Len(outputs) = nd + np + nc
           /\ \A i \in 1..nd :
                 /\ outputs[i].kind = "ordinal" /\ outputs[i].sats = 1 /\ ~outputs[i].change
                 /\ outputs[i].size = SendDestinationOutput(cfg.Destinations[i])[1].size
           /\ \A i \in 1..np :
                 /\ outputs[nd + i].kind = "payment" /\ ~outputs[nd + i].change
                 /\ outputs[nd + i].sats = cfg.AdditionalPayments[i].Satoshis
           /\ \A i \in 1..nc : outputs[nd + np + i].change

(* C21: one ordinal and one payment UTXO sent to one destination with an   *)
(* additional payment and a change address.                                *)
C21_Witness ==
    /\ SendReturned
    /\ Len(cfg.Ordinals) = 1 /\ Len(cfg.PaymentUtxos) = 1
    /\ Len(cfg.Destinations) = 1 /\ Len(cfg.AdditionalPayments) = 1
    /\ cfg.ChangeAddress # ""
    /\ Len(inputs) = 2 /\ Len(outputs) = 3 /\ outputs[1].sats = 1


Validated == util.name = "ValidateSubTypeData"

(* The rules of a subtype that the data violates, in the order the source  *)
(* states them.                                                            *)
ViolatedRules(subType, data) ==
    IF subType = "collection"
    THEN AppendIf(data.Description = "", "description is required for collection subtype")
         \o AppendIf(data.Quantity <= 0, "quantity must be positive for collection subtype")
         \o AppendIf(~IsNil(data.Traits) /\ Deref(data.Traits) = {},
                     "traits must not be empty if present")
    ELSE IF subType = "collectionItem"
    THEN AppendIf(data.CollectionID = "", "collectionId is required for collectionItem subtype")
         \o AppendIf(data.MintNumber < 0,
                     "mintNumber must be non-negative for collectionItem subtype")
         \o AppendIf(data.Rank < 0, "rank must be non-negative for collectionItem subtype")
    ELSE <<"unknown subtype: " \o subType>>

(* C22: ValidateSubTypeData returns Valid = true exactly when Errors is    *)
(* empty; for nil data exactly the one error "subtype data is nil"; for    *)
(* non-nil data one error per violated rule of the subtype, plus an error  *)
(* for an unknown subtype and one for a protocol other than bsv-21, all    *)
(* accumulated.                                                            *)
C22_ValidationAccumulates ==
    Validated =>
        LET result == Deref(util.result)
            args == util.args
        IN /\ result.Valid <=> result.Errors = <<>>
           /\ IsNil(args.data) => result.Errors = <<"subtype data is nil">>
           /\ ~IsNil(args.data) =>
                 result.Errors =
                     ViolatedRules(args.subType, Deref(args.data))
                     \o AppendIf(args.protocol # "bsv-21",
                                 "unknown protocol: " \o args.protocol)


(* The selection is the first n items of the list in one of the orders the *)
(* input strategy can leave it in.                                         *)
PrefixOfReordered(selected) ==
    \E t \in Orders(sel.tokenUtxos, DefaultedOptions(sel.options).InputStrategy) :
        SubSeq(t, 1, Len(selected)) = selected

(* C23: for R > 0 the items SelectTokenUtxos selects are the shortest      *)
(* prefix of the list as reordered by the input strategy whose cumulative  *)
(* amount reaches R: the total without the last-selected item, added up in *)
(* selection order, is strictly below R, and no item after it in the       *)
(* reordered list is selected.                                             *)
C23_ShortestPrefix ==
    (~IsNil(sel.loop) /\ ~Float64Geq(Float64OfNat(0), sel.requiredTokens)) =>
        LET selected == Deref(sel.loop).SelectedUtxos
            n == Len(selected)
        IN /\ PrefixOfReordered(selected)
           /\ n > 0 =>
                 ~Float64Geq(ListOrderSum(SubSeq(selected, 1, n - 1), sel.decimals,
                                          Float64OfNat(0)),
                             sel.requiredTokens)
           /\ n < Len(sel.tokenUtxos) =>
                 Float64Geq(ListOrderSum(selected, sel.decimals, Float64OfNat(0)),
                            sel.requiredTokens)

(* C23 witness: under largest-first a list given in ascending order is     *)
(* walked from its largest item and the walk stops before the end, after   *)
(* more than one item.                                                     *)
C23_Witness ==
    /\ ~IsNil(sel.loop) /\ ~IsNil(sel.options)
    /\ ~Float64Geq(Float64OfNat(0), sel.requiredTokens)
    /\ Deref(sel.options).InputStrategy = "largest"
    /\ Len(sel.tokenUtxos) = 3
    /\ sel.tokenUtxos[1].Amount < sel.tokenUtxos[3].Amount
    /\ Len(Deref(sel.loop).SelectedUtxos) = 2


(* A step of a builder keeps the phases of the pending transaction in     *)
(* order.                                                                  *)
PhasesKept ==
    fn \in Builders =>
        /\ Len(inputs') > Len(inputs) => (outputs = <<>> /\ fee = -1)
        /\ Len(outputs') > Len(outputs) => fee = -1
        /\ fee' # fee => fee = -1
        /\ signed' # signed => (signed = 0 /\ fee # -1 /\ ret = "none")

(* C24: in every builder the pending transaction passes through its phases *)
(* strictly in order: no input is added after any output has been added,   *)
(* no input or output is added after fee resolution, fee resolution runs   *)
(* exactly once, and signing runs exactly once and only after fee          *)
(* resolution succeeded.                                                   *)
C24_PhasesInOrder == [][PhasesKept]_vars


(* A step of a SelectTokenUtxos call writes neither the caller's list, nor *)
(* its TokenUtxo records, nor the caller's options record.                 *)
CallerMemoryKept ==
    /\ sel'.tokenUtxos = sel.tokenUtxos
    /\ ReadSlice(sel'.heap, sel'.caller) = ReadSlice(sel.heap, sel.caller)
    /\ sel'.options = sel.options

(* C25: two SelectTokenUtxos calls running concurrently on the same token  *)
(* list and the same options record perform no write to memory visible to  *)
(* the other call or to the caller: no step of a call modifies the list,   *)
(* its TokenUtxo records or the options record, also when its strategy     *)
(* fields are left empty.                                                  *)
C25_NoSharedWrites == [][CallerMemoryKept]_vars


(* round(tokens * 10^decimals) of a display amount held as a fraction,     *)
(* halves rounded up.                                                      *)
RoundedRaw(tokens, decimals) ==
    (2 * tokens.num * Pow(10, decimals) + tokens.den) \div (2 * tokens.den)

(* C26: in TransferOrdTokens the raw token amount written into each        *)
(* distribution output, and counted against the input token total, equals  *)
(* round(dist.Tokens * 10^config.Decimals).                                *)
C26_DistributionRawAmount ==
    TransferReturned =>
        /\ \A i \in DOMAIN cfg.Distributions :
              /\ outputs[i].kind = "token"
              /\ outputs[i].tokens = RoundedRaw(cfg.Distributions[i].Tokens, cfg.Decimals)
        /\ SumNat([i \in DOMAIN cfg.Distributions |->
                     RoundedRaw(cfg.Distributions[i].Tokens, cfg.Decimals)])
              <= TotalTokens(cfg)


Converted == util.name = "FromToken"

(* C27: for every non-negative display amount whose raw result             *)
(* amount * 10^decimals would exceed 2^64 - 1, FromToken fails instead of  *)
(* returning a value; for every negative amount it fails as well; it       *)
(* never returns a wrapped or truncated raw amount.                        *)
C27_FromTokenOverflow ==
    Converted =>
        LET amount == util.args.amount
            M == amount.m * Pow(10, util.args.decimals)
            rounded == RoundDyadic(M, amount.e)
            result == Deref(util.result)
        IN /\ (amount.neg /\ amount.m > 0) => result.panic # ""
           /\ (~amount.neg /\ GeqPow2(M, amount.e, Uint64Bits)) => result.panic # ""
           /\ result.panic = "" =>
                 /\ ~GeqPow2(rounded.m, rounded.e, Uint64Bits)
                 /\ result.value = Uint64Of(rounded.m, rounded.e)


TokenTransferReturned == fn = "TransferOrdToken" /\ ret = "tx"

(* The token outputs after the distribution outputs: the token change. *)
TokenChangeOf(outs) ==
    SubSeq(SelectSeq(outs, LAMBDA o : o.kind = "token"), Len(cfg.Distributions) + 1,
           Len(SelectSeq(outs, LAMBDA o : o.kind = "token")))

(* C28: in TransferOrdToken (tokens.go) the remaining token amount, total  *)
(* input tokens minus distributed tokens in 64-bit unsigned arithmetic,    *)
(* never wraps around: no token change output carries more tokens than    *)
(* the inputs supply.                                                      *)
C28_RemainingNeverWraps ==
    TokenTransferReturned =>
        /\ RemainingTokens(cfg)
             = UnboundedSub(Uint64OfNat(TotalTokens(cfg)), Uint64OfNat(DistributedTokens(cfg)))
        /\ \A i \in DOMAIN TokenChangeOf(outputs) :
              Float64Geq(Uint64OfNat(TotalTokens(cfg)), TokenChangeOf(outputs)[i].tokens)


BurnReturned == fn = "BurnOrdinals" /\ ret = "tx"

(* The scripts of the outputs a plan adds, in order. *)
ScriptsOf(steps) ==
    LET outs == SelectSeq(steps, LAMBDA st : st.op \in {"out", "change"})
    IN [i \in DOMAIN outs |-> outs[i].msg]

(* C29: BurnOrdinals is deterministic in its outputs: the ordered list of  *)
(* output scripts a call returns is the one every call with the same       *)
(* config returns, whichever order the metadata map is visited in; the     *)
(* order of the key/value pairs in the data-carrier output does not vary.  *)
C29_BurnDeterministic ==
    BurnReturned =>
        \A order \in RangeOrders(cfg.Metadata) :
            [i \in DOMAIN outputs |-> outputs[i].script] = ScriptsOf(BurnOrdinals(cfg, order))


(* C30: every output createSplitTokenOutputs emits carries a strictly      *)
(* positive token amount, for every remaining amount > 0, every requested  *)
(* output count k > 1 and every threshold, a remaining amount smaller than *)
(* k included.                                                             *)
C30_SplitOutputsPositive ==
    (SplitReturned /\ Deref(cfg.SplitConfig).Outputs > 1) =>
        \A i \in DOMAIN outputs : outputs[i].tokens > 0

=============================================================================
